---- MODULE Spec2Model ----
(***************************************************************************)
(* Model of moana2usd: the OBJ stream parser (obj_parser.py), the per-group *)
(* mesh assembly of AssetConverter._convertOBJToUSD, and the run of         *)
(* SceneConverter.convert (cameras, lights, assets, elements, scene stage)  *)
(* over a destination directory.                                            *)
(*                                                                          *)
(* Text is modelled as sequences of one-character strings, so that          *)
(* strip / replace / split / int / float act as the Python code does.       *)
(***************************************************************************)
EXTENDS Integers, Sequences, FiniteSets, TLC

(***************************************************************************)
(* Python string and list primitives                                        *)
(***************************************************************************)
Digits == <<"0", "1", "2", "3", "4", "5", "6", "7", "8", "9">>

IsDigit(c) == \E i \in 1..10 : Digits[i] = c

DigitVal(c) == (CHOOSE i \in 1..10 : Digits[i] = c) - 1

\* the characters str.strip() and str.split() take for whitespace: space, tab,
\* line feed, carriage return, form feed and vertical tab
IsSpace(c) ==
    c = " " \/ c = "\t" \/ c = "\n" \/ c = "\r" \/ c = "\f" \/ c = ""

\* s[from..] as a sequence (empty when from > Len(s))
Drop(s, k) == SubSeq(s, k + 1, Len(s))

Take(s, k) == SubSeq(s, 1, k)

\* str.startswith(prefix)
StartsWith(s, p) == Len(s) >= Len(p) /\ Take(s, Len(p)) = p

RECURSIVE LStrip(_)
LStrip(s) == IF s # <<>> /\ IsSpace(Head(s)) THEN LStrip(Tail(s)) ELSE s

RECURSIVE RStrip(_)
RStrip(s) == IF s # <<>> /\ IsSpace(s[Len(s)]) THEN RStrip(Take(s, Len(s) - 1)) ELSE s

\* str.strip()
Strip(s) == RStrip(LStrip(s))

\* str.replace(old, ''): every non-overlapping occurrence, left to right
RECURSIVE Remove(_, _)
Remove(s, old) ==
    IF s = <<>> THEN <<>>
    ELSE IF StartsWith(s, old) THEN Remove(Drop(s, Len(old)), old)
    ELSE <<Head(s)>> \o Remove(Tail(s), old)

\* str.replace(old, new): every non-overlapping occurrence, left to right
RECURSIVE Replace(_, _, _)
Replace(s, old, new) ==
    IF s = <<>> THEN <<>>
    ELSE IF StartsWith(s, old) THEN new \o Replace(Drop(s, Len(old)), old, new)
    ELSE <<Head(s)>> \o Replace(Tail(s), old, new)

\* the first maximal run of non-blank characters of s (s does not start blank)
RECURSIVE Word(_)
Word(s) == IF s = <<>> \/ IsSpace(Head(s)) THEN <<>> ELSE <<Head(s)>> \o Word(Tail(s))

\* str.split(): the non-empty words between runs of blanks
RECURSIVE Split(_)
Split(s) ==
    LET t == LStrip(s) IN
    IF t = <<>> THEN <<>>
    ELSE LET w == Word(t) IN <<w>> \o Split(Drop(t, Len(w)))

\* the characters of s before the first sep
RECURSIVE UpTo(_, _)
UpTo(s, sep) == IF s = <<>> \/ Head(s) = sep THEN <<>> ELSE <<Head(s)>> \o UpTo(Tail(s), sep)

\* str.split(sep): the fields between single separators, empty fields kept
RECURSIVE SplitOn(_, _)
SplitOn(s, sep) ==
    LET w == UpTo(s, sep) IN
    IF Len(w) = Len(s) THEN <<w>>
    ELSE <<w>> \o SplitOn(Drop(s, Len(w) + 1), sep)

RECURSIVE AllDigits(_)
AllDigits(s) == s = <<>> \/ (IsDigit(Head(s)) /\ AllDigits(Tail(s)))

\* a numeral without its sign, and the factor its sign stands for
Unsigned(s) == IF s # <<>> /\ (Head(s) = "+" \/ Head(s) = "-") THEN Tail(s) ELSE s

SignOf(s) == IF s # <<>> /\ Head(s) = "-" THEN -1 ELSE 1

\* whether int(s) accepts s: an optional sign, then one digit or more
IsInt(s) == Unsigned(s) # <<>> /\ AllDigits(Unsigned(s))

RECURSIVE NatVal(_)
NatVal(s) == IF s = <<>> THEN 0 ELSE 10 * NatVal(Take(s, Len(s) - 1)) + DigitVal(s[Len(s)])

\* int(s) for an accepted s
IntVal(s) == SignOf(s) * NatVal(Unsigned(s))

(***************************************************************************)
(* float(): a number is the fraction num / den in lowest terms, den > 0.    *)
(* The values that are no fractions of this model have den = 0 and num      *)
(* their rank: 2 for inf, 1 for FLT_MAX (the greatest single-precision      *)
(* number), 0 for nan, -1 for -FLT_MAX and -2 for -inf. A decimal numeral   *)
(* is taken at its exact value. That is the value float() returns, and the  *)
(* value Gf.Vec3f keeps in single precision, when the numeral is a binary   *)
(* fraction of at most 24 places, as every numeral of this model is.        *)
(* -0.0 is the number 0.                                                    *)
(***************************************************************************)
RECURSIVE Gcd(_, _)
Gcd(a, b) == IF b = 0 THEN a ELSE Gcd(b, a % b)

Abs(x) == IF x < 0 THEN -x ELSE x

Fraction(num, den) ==
    LET g == Gcd(Abs(num), den) IN [num |-> num \div g, den |-> den \div g]

Infinity == [num |-> 2, den |-> 0]

FloatMax == [num |-> 1, den |-> 0]

NaN == [num |-> 0, den |-> 0]

Negated(x) == [num |-> 0 - x.num, den |-> x.den]

\* x < y of two floats: false whenever one of them is nan
Less(x, y) ==
    IF x = NaN \/ y = NaN THEN FALSE
    ELSE IF x.den # 0 /\ y.den # 0 THEN x.num * y.den < y.num * x.den
    ELSE (IF x.den = 0 THEN x.num ELSE 0) < (IF y.den = 0 THEN y.num ELSE 0)

\* x <= y of two floats
LessEq(x, y) == x # NaN /\ y # NaN /\ ~Less(y, x)

\* str.lower() of the letters of inf, infinity and nan
LowerCase(s) ==
    [i \in 1..Len(s) |->
        CASE s[i] = "I" -> "i" [] s[i] = "N" -> "n" [] s[i] = "F" -> "f"
          [] s[i] = "T" -> "t" [] s[i] = "Y" -> "y" [] s[i] = "A" -> "a"
          [] OTHER -> s[i]]

\* float() reads inf, infinity and nan in either case
IsInfinityWord(s) ==
    LowerCase(s) \in {<<"i", "n", "f">>, <<"i", "n", "f", "i", "n", "i", "t", "y">>}

IsNaNWord(s) == LowerCase(s) = <<"n", "a", "n">>

\* the characters of s before the first e or E
RECURSIVE Significand(_)
Significand(s) ==
    IF s = <<>> \/ Head(s) = "e" \/ Head(s) = "E" THEN <<>>
    ELSE <<Head(s)>> \o Significand(Tail(s))

\* the digits after the point of a significand
FractionDigits(m) ==
    LET whole == UpTo(m, ".") IN
    IF Len(whole) = Len(m) THEN <<>> ELSE Drop(m, Len(whole) + 1)

\* digits, digits., digits.digits or .digits
IsSignificand(m) ==
    LET whole == UpTo(m, ".")
        fraction == FractionDigits(m)
    IN  AllDigits(whole) /\ AllDigits(fraction) /\ Len(whole) + Len(fraction) >= 1

\* whether float(s) accepts s (s holds no whitespace): an optional sign, then
\* inf, infinity or nan, or a decimal numeral with an optional exponent
IsFloat(s) ==
    LET u == Unsigned(s)
        m == Significand(u)
    IN  \/ IsSignificand(m) /\ (Len(m) = Len(u) \/ IsInt(Drop(u, Len(m) + 1)))
        \/ IsInfinityWord(u)
        \/ IsNaNWord(u)

\* float(s) for an accepted s
FloatVal(s) ==
    LET u == Unsigned(s)
        m == Significand(u)
        fraction == FractionDigits(m)
        exponent == (IF Len(m) = Len(u) THEN 0 ELSE IntVal(Drop(u, Len(m) + 1)))
                    - Len(fraction)
        n == SignOf(s) * NatVal(UpTo(m, ".") \o fraction)
    IN  IF IsDigit(u[1]) \/ u[1] = "."
        THEN IF exponent >= 0 THEN Fraction(n * 10 ^ exponent, 1)
             ELSE Fraction(n, 10 ^ (0 - exponent))
        ELSE IF IsNaNWord(u) THEN NaN
        ELSE IF SignOf(s) < 0 THEN Negated(Infinity) ELSE Infinity

\* list[i] of Python: a negative i counts from the end
PyIndexOK(i, n) == 0 - n <= i /\ i < n

PyIndex(i, n) == IF i < 0 THEN n + i ELSE i

(***************************************************************************)
(* OBJStream (obj_parser.py)                                                *)
(***************************************************************************)
\* the string 'default'
DefaultName == <<"d", "e", "f", "a", "u", "l", "t">>

Point(vertIndex, uvIndex, normalIndex) ==
    [vertIndex |-> vertIndex, uvIndex |-> uvIndex, normalIndex |-> normalIndex]

\* a face whose range starts at the first point of the table
FaceFromZero(pointsBeginIndex, pointsEndIndex) ==
    [pointsBegin |-> 0, pointsEnd |-> pointsEndIndex]

Face(pointsBeginIndex, pointsEndIndex) ==
    [pointsBegin |-> pointsBeginIndex, pointsEnd |-> pointsEndIndex]

\* a size that counts both ends of the range
FaceSizeInclusive(face) == face.pointsEnd - face.pointsBegin + 1

\* Face.size()
FaceSize(face) == face.pointsEnd - face.pointsBegin

Group(name, faces) == [name |-> name, faces |-> faces]

\* OBJStream.__init__
OBJStream ==
    [verts |-> <<>>, uvs |-> <<>>, normals |-> <<>>, points |-> <<>>,
     groups |-> <<>>, materialMap |-> [g \in {DefaultName} |-> DefaultName]]

AddVert(s, vertex) == [s EXCEPT !.verts = Append(@, vertex)]

AddUV(s, uv) == [s EXCEPT !.uvs = Append(@, uv)]

\* a normal appended to the vertex table
AddNormalToVerts(s, normal) == [s EXCEPT !.verts = Append(@, normal)]

AddNormal(s, normal) == [s EXCEPT !.normals = Append(@, normal)]

AddPoint(s, point) == [s EXCEPT !.points = Append(@, point)]

\* OBJStream.FindGroup(groupName) is not None
FindGroup(s, groupName) == \E i \in 1..Len(s.groups) : s.groups[i].name = groupName

\* OBJStream.AddGroup: appended only when no group has that name
AddGroup(s, groupName) ==
    IF ~FindGroup(s, groupName)
    THEN [s EXCEPT !.groups = Append(@, Group(groupName, <<>>))]
    ELSE s

\* OBJStream.AddFace: the face goes to the last group of the list
AddFace(s, face) ==
    LET t == IF s.groups = <<>> THEN AddGroup(s, DefaultName) ELSE s IN
    [t EXCEPT !.groups[Len(t.groups)].faces = Append(@, face)]

\* OBJStream.GetCurrentGroup (raises IndexError on an empty group list)
GetCurrentGroup(s) == s.groups[Len(s.groups)].name

\* OBJStream.AddMaterial: dict.update({groupName: materialName})
AddMaterial(s, groupName, materialName) ==
    [s EXCEPT !.materialMap =
        [g \in DOMAIN s.materialMap \cup {groupName} |->
            IF g = groupName THEN materialName ELSE s.materialMap[g]]]

\* OBJStream.GetMaterialForGroup: dict.get(groupName, 'default')
GetMaterialForGroup(s, groupName) ==
    IF groupName \in DOMAIN s.materialMap THEN s.materialMap[groupName] ELSE DefaultName

(***************************************************************************)
(* materials.json of an asset, and the two look-ups of obj_parser.py.       *)
(* A materials file is [exists, data]: data maps a material name to its     *)
(* attribute bag; an optional value is [isNone, value].                     *)
(***************************************************************************)
None == [isNone |-> TRUE, value |-> <<>>]

Some(value) == [isNone |-> FALSE, value |-> value]

\* the attribute bag of a material: the keys it has, and their values
MaterialData(hasBaseColor, baseColor, hasOpacity, opacity) ==
    [hasBaseColor |-> hasBaseColor, baseColor |-> baseColor,
     hasOpacity |-> hasOpacity, opacity |-> opacity]

\* `if materialData:` is true of a bag that has at least one key
MaterialDataIsTruthy(materialData) ==
    materialData.hasBaseColor \/ materialData.hasOpacity

\* the reserved colors [1.0, 0.0, 0.0] and [1.0, 0.0, 1.0]
SentinelColors == {<<1, 0, 0>>, <<1, 0, 1>>}

\* a look-up that returns every base color it finds
GetAnyBaseColorForMaterial(materials, materialName) ==
    IF materials.exists /\ materialName \in DOMAIN materials.data
    THEN IF materials.data[materialName].hasBaseColor
         THEN Some(materials.data[materialName].baseColor) ELSE None
    ELSE None

\* getDisplayColorForMaterial
GetDisplayColorForMaterial(materials, materialName) ==
    IF materials.exists /\ materialName \in DOMAIN materials.data
    THEN LET materialData == materials.data[materialName] IN
         IF MaterialDataIsTruthy(materialData)
            /\ materialData.hasBaseColor
            /\ materialData.baseColor \notin SentinelColors
         THEN Some(materialData.baseColor) ELSE None
    ELSE None

\* getDisplayOpacityForMaterial
GetDisplayOpacityForMaterial(materials, materialName) ==
    IF materials.exists /\ materialName \in DOMAIN materials.data
    THEN LET materialData == materials.data[materialName] IN
         IF MaterialDataIsTruthy(materialData)
            /\ materialData.hasBaseColor
            /\ Len(materialData.baseColor) >= 4
         THEN Some(materialData.baseColor[4]) ELSE None
    ELSE None

(***************************************************************************)
(* getOBJStreamForFile: the body of the loop over the lines of the file.    *)
(* A result is [err, s]: err is "none" or the exception the line raises.    *)
(***************************************************************************)
Ok(s) == [err |-> "none", s |-> s]

Raise(kind, s) == [err |-> kind, s |-> s]

\* the `v ` / `vn ` / `vt ` branches: float() of the first n words
ParseCoords(s, words, n, vn) ==
    IF Len(words) < n THEN
        \* float(x) of the words present is evaluated first, left to right
        IF \E i \in 1..Len(words) : ~IsFloat(words[i])
        THEN Raise("ValueError", s) ELSE Raise("IndexError", s)
    ELSE IF \E i \in 1..n : ~IsFloat(words[i]) THEN Raise("ValueError", s)
    ELSE LET c == [i \in 1..n |-> FloatVal(words[i])] IN
         Ok(CASE vn = "v" -> AddVert(s, c)
              [] vn = "n" -> AddNormal(s, c)
              [] OTHER -> AddUV(s, c))

\* one reference `vertIdx[/texIdx][/normIdx]` of an `f` line
RefOK(ref) ==
    LET segments == SplitOn(ref, "/") IN
    /\ segments[1] # <<>> => IsInt(segments[1])
    /\ (Len(segments) > 1 /\ segments[2] # <<>>) => IsInt(segments[2])
    /\ (Len(segments) > 2 /\ segments[3] # <<>>) => IsInt(segments[3])

RefPoint(ref) ==
    LET segments == SplitOn(ref, "/") IN
    Point(IF segments[1] # <<>> THEN IntVal(segments[1]) - 1 ELSE -1,
          IF Len(segments) > 1 /\ segments[2] # <<>> THEN IntVal(segments[2]) - 1 ELSE -1,
          IF Len(segments) > 2 /\ segments[3] # <<>> THEN IntVal(segments[3]) - 1 ELSE -1)

RECURSIVE AddPoints(_, _)
AddPoints(s, pointData) ==
    IF pointData = <<>> THEN s
    ELSE AddPoints(AddPoint(s, RefPoint(Head(pointData))), Tail(pointData))

\* the `f` branch
ParseFace(s, line) ==
    LET pointsBegin == Len(s.points)
        pointData == Split(Strip(Remove(line, <<"f", " ">>)))
    IN  IF \E i \in 1..Len(pointData) : ~RefOK(pointData[i])
        THEN Raise("ValueError", s)
        ELSE LET t == AddPoints(s, pointData) IN
             Ok(AddFace(t, Face(pointsBegin, Len(t.points))))

\* the `g` branch
ParseGroup(s, line) ==
    LET groupName == Remove(line, <<"g", " ">>) IN
    Ok(AddGroup(s, IF groupName = <<"g">> THEN DefaultName ELSE groupName))

UsemtlPrefix == <<"u", "s", "e", "m", "t", "l", " ">>

\* the `usemtl ` branch
ParseUsemtl(s, line) ==
    LET materialName == Strip(Remove(line, UsemtlPrefix)) IN
    IF materialName # <<>>
    THEN IF s.groups = <<>> THEN Raise("IndexError", s)
         ELSE Ok(AddMaterial(s, GetCurrentGroup(s), materialName))
    ELSE Ok(s)

\* the loop body of getOBJStreamForFile for one raw line of the file
ProcessLine(s, rawLine) ==
    LET line == Strip(rawLine) IN
    IF line = <<>> THEN Ok(s)
    ELSE IF line[1] = "v" THEN
        IF Len(line) < 2 THEN Raise("IndexError", s)
        ELSE IF line[2] = " " THEN
            ParseCoords(s, Split(Strip(Remove(line, <<"v", " ">>))), 3, "v")
        ELSE IF line[2] = "n" THEN
            ParseCoords(s, Split(Strip(Remove(line, <<"v", "n", " ">>))), 3, "n")
        ELSE IF line[2] = "t" THEN
            ParseCoords(s, Split(Strip(Remove(line, <<"v", "t", " ">>))), 2, "t")
        ELSE Ok(s)
    ELSE IF line[1] = "f" THEN ParseFace(s, line)
    ELSE IF line[1] = "g" THEN ParseGroup(s, line)
    ELSE IF StartsWith(line, UsemtlPrefix) THEN ParseUsemtl(s, line)
    ELSE Ok(s)

(***************************************************************************)
(* AssetConverter._convertOBJToUSD: the per-group mesh assembly             *)
(***************************************************************************)
EmptyMap == [i \in {} |-> 0]

\* a loop body that appends the vertex of every point, met before or not
VisitPointNoReuse(acc, objPoint, usdPoints) ==
    LET vertexIndex == objPoint.vertIndex IN
    IF ~PyIndexOK(vertexIndex, Len(usdPoints))
    THEN [acc EXCEPT !.err = "IndexError"]
    ELSE [acc EXCEPT
            !.faceVertexIndices = Append(@, vertexIndex),
            !.groupVertexIndices = Append(@, Len(acc.groupVertexBuffer)),
            !.groupVertexBuffer =
                Append(@, usdPoints[PyIndex(vertexIndex, Len(usdPoints)) + 1])]

\* the loop body over one point of a face (asset_converter.py 127-137)
VisitPoint(acc, objPoint, usdPoints) ==
    LET vertexIndex == objPoint.vertIndex
        known == vertexIndex \in DOMAIN acc.objectToGroupVertexBufferMap
        smallBufferIndex ==
            IF known THEN acc.objectToGroupVertexBufferMap[vertexIndex]
            ELSE Len(acc.groupVertexBuffer)
    IN  IF ~known /\ ~PyIndexOK(vertexIndex, Len(usdPoints))
        THEN [acc EXCEPT !.err = "IndexError"]
        ELSE [acc EXCEPT
                !.faceVertexIndices = Append(@, vertexIndex),
                !.objectToGroupVertexBufferMap =
                    IF known THEN @
                    ELSE [i \in DOMAIN @ \cup {vertexIndex} |->
                            IF i = vertexIndex THEN smallBufferIndex ELSE @[i]],
                !.groupVertexBuffer =
                    IF known THEN @
                    ELSE Append(@, usdPoints[PyIndex(vertexIndex, Len(usdPoints)) + 1]),
                !.groupVertexIndices = Append(@, smallBufferIndex)]

\* for pointIndex in xrange(face.pointsBegin, face.pointsEnd)
RECURSIVE WalkPoints(_, _, _, _)
WalkPoints(acc, pointIndex, pointsEnd, s) ==
    IF pointIndex >= pointsEnd \/ acc.err # "none" THEN acc
    ELSE WalkPoints(VisitPoint(acc, s.points[pointIndex + 1], s.verts),
                    pointIndex + 1, pointsEnd, s)

\* for face in group.faces
RECURSIVE WalkFaces(_, _, _)
WalkFaces(acc, faces, s) ==
    IF faces = <<>> \/ acc.err # "none" THEN acc
    ELSE LET face == Head(faces)
             counted == [acc EXCEPT !.faceVertexCounts = Append(@, FaceSize(face))]
         IN  WalkFaces(WalkPoints(counted, face.pointsBegin, face.pointsEnd, s),
                       Tail(faces), s)

\* the buffers built for one group (asset_converter.py 118-137)
AssembleGroup(s, group) ==
    WalkFaces([err |-> "none", groupVertexBuffer |-> <<>>,
               objectToGroupVertexBufferMap |-> EmptyMap,
               groupVertexIndices |-> <<>>, faceVertexCounts |-> <<>>,
               faceVertexIndices |-> <<>>],
              group.faces, s)

\* Gf.Range3f(): the empty range <<min, max>>, min above max
EmptyRange == <<[c \in 1..3 |-> FloatMax], [c \in 1..3 |-> Negated(FloatMax)]>>

\* Gf.Range3f.UnionWith(point): a bound moves when the coordinate is below
\* the minimum or above the maximum, which a nan never is
UnionWith(range, point) ==
    <<[c \in 1..3 |-> IF Less(point[c], range[1][c]) THEN point[c] ELSE range[1][c]],
      [c \in 1..3 |-> IF Less(range[2][c], point[c]) THEN point[c] ELSE range[2][c]]>>

RECURSIVE UnionWithAll(_, _)
UnionWithAll(range, buffer) ==
    IF buffer = <<>> THEN range
    ELSE UnionWithAll(UnionWith(range, Head(buffer)), Tail(buffer))

\* Gf.Range3f() united with every vertex of the buffer: <<min, max>>
GroupExtent(buffer) == UnionWithAll(EmptyRange, buffer)

\* the indices into the global vertex table, written in place of the compacted ones
WrittenGlobalIndices(asm) == asm.faceVertexIndices

\* the index array written as the mesh's faceVertexIndices attribute
WrittenIndices(asm) == asm.groupVertexIndices

\* `if baseColor:` then primvars:displayColor = [Gf.Vec3f(*baseColor[:3])];
\* no attribute is <<>>
DisplayColor(baseColor) ==
    IF ~baseColor.isNone /\ baseColor.value # <<>>
    THEN <<Take(baseColor.value, 3)>> ELSE <<>>

\* `if alpha:` then primvars:displayOpacity = [alpha]; no attribute is <<>>
DisplayOpacity(alpha) ==
    IF ~alpha.isNone /\ alpha.value # 0 THEN <<alpha.value>> ELSE <<>>

\* the Mesh prim spec written for one group (asset_converter.py 140-201)
MeshPrim(s, group, asm, materials) ==
    LET materialName == GetMaterialForGroup(s, group.name) IN
    [name |-> group.name,
     faceVertexCounts |-> asm.faceVertexCounts,
     faceVertexIndices |-> WrittenIndices(asm),
     points |-> asm.groupVertexBuffer,
     extent |-> GroupExtent(asm.groupVertexBuffer),
     material |-> materialName,
     displayColor |-> DisplayColor(GetDisplayColorForMaterial(materials, materialName)),
     displayOpacity |->
        DisplayOpacity(GetDisplayOpacityForMaterial(materials, materialName))]

\* for group in objStream.GetGroups(): groups without faces are skipped
RECURSIVE ConvertGroups(_, _, _, _)
ConvertGroups(s, groups, meshes, materials) ==
    IF groups = <<>> THEN [err |-> "none", meshes |-> meshes]
    ELSE IF Head(groups).faces = <<>>
    THEN ConvertGroups(s, Tail(groups), meshes, materials)
    ELSE LET asm == AssembleGroup(s, Head(groups)) IN
         IF asm.err # "none" THEN [err |-> asm.err, meshes |-> <<>>]
         ELSE ConvertGroups(s, Tail(groups),
                            Append(meshes, MeshPrim(s, Head(groups), asm, materials)),
                            materials)

\* the directory of the source directory that holds the geometry files, one
\* directory per element
ObjDirectory == <<"o", "b", "j">>

\* elementName: the second component of the path of the geometry file from
\* the source directory. A geometry file is named by its path from the obj
\* directory; "/" stands for the separator the code splits on.
ElementName(assetOBJPath) == SplitOn(ObjDirectory \o <<"/">> \o assetOBJPath, "/")[2]

\* rootPath = '/' + elementName
RootPath(assetOBJPath) == <<"/">> \o ElementName(assetOBJPath)

\* AssetConverter._getMeshPath
GetMeshPath(rootPath, groupName) == rootPath \o <<"/", "g", "e", "o", "m", "e", "t", "r", "y", "/">> \o groupName

\* AssetConverter._getMaterialPath
GetMaterialPath(rootPath, materialName) == rootPath \o <<"/", "m", "a", "t", "e", "r", "i", "a", "l", "s", "/">> \o materialName

\* AssetConverter._getShaderPath
GetShaderPath(materialPath) == materialPath \o <<"/", "p", "r", "e", "v", "i", "e", "w", "S", "u", "r", "f", "a", "c", "e", "S", "h", "a", "d", "e", "r">>

\* the material, its shader and its binding defined for one group
MaterialPrim(rootPath, group) ==
    LET materialPath == GetMaterialPath(rootPath, Replace(group.name, <<"_", "g", "e", "o">>, <<"_", "m", "a", "t">>)) IN
    [material |-> materialPath,
     shader |-> GetShaderPath(materialPath),
     boundMesh |-> GetMeshPath(rootPath, group.name)]

\* a loop that defines a material for every group, with faces or not
RECURSIVE DefineMaterialsOfAllGroups(_, _, _)
DefineMaterialsOfAllGroups(rootPath, groups, prims) ==
    IF groups = <<>> THEN prims
    ELSE DefineMaterialsOfAllGroups(rootPath, Tail(groups),
                                    Append(prims, MaterialPrim(rootPath, Head(groups))))

\* the second loop over the groups: groups without faces are skipped
RECURSIVE DefineMaterials(_, _, _)
DefineMaterials(rootPath, groups, prims) ==
    IF groups = <<>> THEN prims
    ELSE IF Head(groups).faces = <<>>
    THEN DefineMaterials(rootPath, Tail(groups), prims)
    ELSE DefineMaterials(rootPath, Tail(groups),
                         Append(prims, MaterialPrim(rootPath, Head(groups))))

\* a test that finds vertices in every stream
HasVertsAlways(s) == TRUE

\* `if objStream.GetVerts():` in _translateOBJFileIntoUSD
HasVerts(s) == s.verts # <<>>

\* AssetConverter._convertOBJToUSD: the meshes exported, or the exception.
\* After the group loop materials.json is opened whether or not it exists.
ConvertOBJToUSD(assetOBJPath, s, materials) ==
    LET r == ConvertGroups(s, s.groups, <<>>, materials) IN
    IF r.err # "none"
    THEN [err |-> r.err, meshes |-> <<>>, materials |-> <<>>]
    ELSE IF ~materials.exists
    THEN [err |-> "IOError", meshes |-> <<>>, materials |-> <<>>]
    ELSE [err |-> "none", meshes |-> r.meshes,
          materials |-> DefineMaterials(RootPath(assetOBJPath), s.groups, <<>>)]

(***************************************************************************)
(* The lines a geometry file is made of in this model                       *)
(***************************************************************************)
L_v000 == <<"v", " ", "0", " ", "0", " ", "0">>

L_v123 == <<"v", " ", "1", " ", "2", " ", "3">>

L_vn == <<"v", "n", " ", "0", " ", "-", "0", ".", "0", " ", "1", ".">>

L_vt == <<"\t", "v", "t", " ", ".", "5", "\t", "1", "e", "0">>

L_vnan == <<"v", " ", "n", "a", "n", " ", "1", ".", "5", " ", "-", "2">>

L_fseg == <<"f", " ", "1", "/", "1", " ", "2", "/", "/", "1", " ", "1">>

L_f011 == <<"f", " ", "0", " ", "1", " ", "1">>

L_f123 == <<"f", " ", "1", " ", "2", " ", "3">>

L_f222 == <<"f", " ", "+", "2", " ", "2", "\t", "2">>

L_f11 == <<"f", " ", "1", " ", "1">>

L_ga == <<"g", " ", "a">>

L_gb == <<"g", " ", "b">>

L_g == <<"g">>

L_usemtl == <<"u", "s", "e", "m", "t", "l", " ", "m">>

L_comment == <<"#", " ", "x">>

L_vp == <<"v", "p", " ", "1">>

\* a vertex line whose coordinates follow a tab
L_vtab == <<"v", "\t", "1", " ", "2", " ", "3">>

L_v == <<"v">>

L_go == <<"g", "o">>

L_fx == <<"f", "x">>

L_blank == <<" ", "\t">>

FileLines ==
    {L_v000, L_v123, L_vnan, L_vn, L_vt, L_fseg, L_f011, L_f222, L_f11,
     L_f123, L_ga, L_gb, L_g, L_usemtl, L_comment,
     L_vp, L_vtab, L_v, L_go, L_fx, L_blank}

\* the longest file read
MaxLines == 4

(***************************************************************************)
(* The materials.json files an asset may come with. The names a stream of   *)
(* this model binds are 'default' and 'm'; a base color has 3 or 4 channels.*)
(***************************************************************************)
MaterialM == <<"m">>

NoBaseColor == MaterialData(FALSE, <<>>, FALSE, 0)

BaseColor(baseColor) == MaterialData(TRUE, baseColor, FALSE, 0)

MaterialsFile(data) == [exists |-> TRUE, data |-> data]

\* no materials.json in the directory of the asset
MaterialsMissing == [exists |-> FALSE, data |-> [n \in {} |-> NoBaseColor]]

\* an empty JSON object
MaterialsEmpty == MaterialsFile([n \in {} |-> NoBaseColor])

MaterialsPlain ==
    MaterialsFile([n \in {DefaultName, MaterialM} |->
        IF n = DefaultName THEN BaseColor(<<2, 3, 4>>) ELSE BaseColor(<<1, 0, 0>>)])

MaterialsAlpha ==
    MaterialsFile([n \in {DefaultName, MaterialM} |->
        IF n = DefaultName THEN BaseColor(<<1, 0, 1>>) ELSE BaseColor(<<2, 3, 4, 5>>)])

MaterialsZeroAlpha ==
    MaterialsFile([n \in {DefaultName, MaterialM} |->
        IF n = DefaultName THEN BaseColor(<<2, 3, 4, 0>>)
        ELSE MaterialData(FALSE, <<>>, TRUE, 5)])

MaterialsRedAlpha ==
    MaterialsFile([n \in {DefaultName, MaterialM} |->
        IF n = DefaultName THEN BaseColor(<<1, 0, 0, 1>>) ELSE NoBaseColor])

MaterialsOpacityField ==
    MaterialsFile([n \in {DefaultName, MaterialM} |->
        IF n = DefaultName THEN MaterialData(TRUE, <<2, 3, 4>>, TRUE, 5)
        ELSE BaseColor(<<2, 3, 4>>)])

MaterialFiles ==
    {MaterialsMissing, MaterialsEmpty, MaterialsPlain, MaterialsAlpha,
     MaterialsZeroAlpha, MaterialsRedAlpha, MaterialsOpacityField}

(***************************************************************************)
(* Paths (os.path) and the artifacts of the destination directory           *)
(***************************************************************************)
RECURSIVE Basename(_)
\* os.path.basename: the text after the last separator
Basename(path) ==
    IF \E i \in 1..Len(path) : path[i] = "/"
    THEN Basename(Drop(path, Len(UpTo(path, "/")) + 1))
    ELSE path

\* os.path.splitext(name)[0] of a name without separator: the text before
\* the last dot, when a character other than a dot precedes that dot; the
\* whole name otherwise (leading dots start no extension)
SplitExt(name) ==
    LET dots == {i \in 1..Len(name) : name[i] = "."} IN
    IF dots = {} THEN name
    ELSE LET dotIndex == CHOOSE i \in dots : \A j \in dots : j <= i IN
         IF \E k \in 1..(dotIndex - 1) : name[k] # "." THEN Take(name, dotIndex - 1)
         ELSE name

\* ElementConverter._getFileBasename: basename(filename).rsplit('.')[0]
GetFileBasename(filename) == UpTo(Basename(filename), ".")

USDFileExtension == <<".", "u", "s", "d">>

ElementPrefix == <<"_", "e", "l", "e", "m", "e", "n", "t", "_">>

InstancesPrefix == <<"_", "i", "n", "s", "t", "a", "n", "c", "e", "s", "_">>

\* AssetConverter._getAssetsStagePath, file name within the primitives directory
GetAssetsStagePath(assetOBJPath) == SplitExt(Basename(assetOBJPath)) \o USDFileExtension

\* ElementConverter._getAssetFilePathFromOBJFilePath
GetAssetFilePathFromOBJFilePath(assetOBJPath) ==
    SplitExt(Basename(assetOBJPath)) \o USDFileExtension

\* ElementConverter.getElementStageFilePath
GetElementStageFilePath(elementName) == ElementPrefix \o elementName \o USDFileExtension

\* ElementConverter._getAssetSubInstanceStageFilePath
GetAssetSubInstanceStageFilePath(jsonFilename) ==
    InstancesPrefix \o GetFileBasename(jsonFilename) \o USDFileExtension

\* a test that finds no sub-instance too small
SubInstanceIsNeverTooSmall(subInstanceName) == FALSE

\* ElementConverter._subInstanceIsTooSmallToInstance
SubInstanceIsTooSmallToInstance(subInstanceName) ==
    subInstanceName \in {"xgGroundCover", "xgPalmDebris", "xgFlutes", "xgDebris"}

(***************************************************************************)
(* The inputs of a run: geometry files, element and sub-instance            *)
(* definitions of the source directory                                      *)
(***************************************************************************)
OBJ_at == <<"a", "/", "t", ".", "o", "b", "j">>

OBJ_bt == <<"b", "/", "t", ".", "o", "b", "j">>

OBJ_au == <<"a", "/", "u", ".", "o", "b", "j">>

\* AssetConverter._createAssets: assetOBJFiles (two of them share a base name,
\* as several files of the list in the source do)
AssetOBJFiles == <<OBJ_at, OBJ_bt, OBJ_au>>

AssetPaths == {AssetOBJFiles[i] : i \in 1..Len(AssetOBJFiles)}

\* contents a geometry file may have
FileMesh == <<L_v000, L_v123, L_fseg>>

FileNoVerts == <<L_comment, L_ga>>

FileBadRef == <<L_v000, L_f123>>

SampleFiles == {FileMesh, FileNoVerts, FileBadRef}

JSON_ax == <<"a", "/", "x", ".", "j", "s", "o", "n">>

JSON_bx == <<"b", "/", "x", ".", "j", "s", "o", "n">>

JSON_ay == <<"a", "/", "y", ".", "v", "2", ".", "j", "s", "o", "n">>

JSON_ag == <<"a", "/", "g", ".", "j", "s", "o", "n">>

JSON_ac == <<"a", "/", "c", ".", "j", "s", "o", "n">>

JSON_bg == <<"b", "/", "g", ".", "j", "s", "o", "n">>

JsonPaths == {JSON_ax, JSON_bx, JSON_ay, JSON_ag, JSON_ac, JSON_bg}

JSON_beachCam == <<"b", "e", "a", "c", "h", "C", "a", "m", ".", "j", "s", "o", "n">>

JSON_shotCam == <<"s", "h", "o", "t", "C", "a", "m", ".", "j", "s", "o", "n">>

JSON_lights == <<"l", "i", "g", "h", "t", "s", ".", "j", "s", "o", "n">>

\* CameraConverter._createCameras: cameraJSONFiles (the first and the last of
\* the seven files of the list)
CameraJSONFiles == <<JSON_beachCam, JSON_shotCam>>

\* LightConverter._createLights: lightJSONFiles
LightJSONFiles == <<JSON_lights>>

\* entries of an instancedPrimitiveJsonFiles mapping
SubA == [name |-> "xgA", type |-> "archive", jsonFile |-> JSON_ax]

SubB == [name |-> "xgB", type |-> "archive", jsonFile |-> JSON_bx]

SubC == [name |-> "xgC", type |-> "archive", jsonFile |-> JSON_ay]

SubGroundCover == [name |-> "xgGroundCover", type |-> "archive", jsonFile |-> JSON_ag]

SubCurve == [name |-> "xgCurve", type |-> "curve", jsonFile |-> JSON_ac]

SubG == [name |-> "xgG", type |-> "archive", jsonFile |-> JSON_bg]

\* an entry of instancedCopies: a key the copy omits falls back to the element's
Copy(name, transformMatrix, hasGeom, geom, hasSubs, subs) ==
    [name |-> name, transformMatrix |-> transformMatrix,
     hasGeom |-> hasGeom, geomObjFile |-> geom,
     hasSubs |-> hasSubs, instancedPrimitiveJsonFiles |-> subs]

\* a transformMatrix is named, not spelled out as its 16 numbers
ElementDef(name, transformMatrix, geom, subs, copies) ==
    [name |-> name, transformMatrix |-> transformMatrix, geomObjFile |-> geom,
     instancedPrimitiveJsonFiles |-> subs, instancedCopies |-> copies]

E1Name == <<"e", "1">>

E2Name == <<"e", "2">>

\* the definitions the first and the second element file may hold
\* (an absent or empty mapping is <<>>, a missing geomObjFile is <<>>)
\* dict.items() of a mapping: its entries in an order the mapping does not
\* fix, so every order of the entries is one
Items(entries) ==
    {q \in [1..Cardinality(entries) -> entries] :
        \A i, j \in 1..Cardinality(entries) : q[i] = q[j] => i = j}

E1Defs ==
    {ElementDef(E1Name, "identity", OBJ_at, subs, copies) :
        subs \in Items({}) \cup Items({SubA}) \cup Items({SubA, SubB})
                \cup Items({SubGroundCover, SubC}),
        copies \in {<<>>,
                    <<Copy(<<"c", "1">>, "moved", FALSE, <<>>, FALSE, <<>>)>>,
                    <<Copy(<<"c", "1">>, "moved", TRUE, OBJ_au, TRUE, <<SubC>>)>>}}

E2Defs ==
    {ElementDef(E2Name, "identity", geom, subs, <<>>) :
        geom \in {OBJ_au},
        subs \in Items({SubA}) \cup Items({SubCurve, SubC})
                \cup Items({SubG, SubGroundCover})}

\* ElementConverter._createElements: elementJSONFiles
ElementJSONFiles == <<E1Name, E2Name>>

NumElements == Len(ElementJSONFiles)

\* the definition files of the source directory that cannot be read
MissingChoices == {{}, {JSON_ay}, {JSON_ax}, {JSON_shotCam}, {JSON_lights}}

\* the number of times the conversion is run over the destination directory
MaxRuns == 2

(***************************************************************************)
(* State                                                                    *)
(***************************************************************************)
VARIABLES
    objStream,  \* the OBJStream being filled by getOBJStreamForFile
    line,       \* the raw line last read from the file
    nread,      \* the number of lines read
    pc,         \* "parsing", "parsed", "exported", "skipped" or "raised"
    err,        \* the exception raised, or "none"
    layer,      \* the Mesh prims of the exported asset stage
    materialInfo, \* the materials.json read by the conversion of the asset
    shading     \* the Material prims, shaders and bindings of the exported stage

VARIABLES
    objFiles,      \* input: the content of each geometry file of the asset list
    elementFiles,  \* input: the definition held by each element file
    missingJson,   \* input: the JSON definition files that cannot be read
    omitSmallInstances, \* input: ElementConverter._omitSmallInstances
    files,         \* the destination directory: path from the primitives directory -> content
    run,           \* the number of the current run
    rpc,           \* "cameras", "lights", "create_assets", "assets", "elements",
                   \* "in_element", "scene", "done" or "aborted"
    todo,          \* assetsOBJFilesThatDoNotExist, not yet translated
    ei,            \* the index of the element being handled
    stage,         \* the prims of the element stage being authored
    pending,       \* the instances of the element still to create
    parsed,        \* this run's calls: [obj, element, json] -> how many times
    atStart,       \* the destination directory as the current run found it
    prevDone       \* whether the previous run ran to completion

(***************************************************************************)
(* Instance batches: ElementConverter._parseInstanceJSONFile                *)
(***************************************************************************)
\* Numbers are exact: a matrix is 16 numerators over den, row by row, a
\* vector is a tuple n of numerators over d. A component of a quaternion is
\* the signed square root sign * sqrt(square) of a fraction, which is what
\* the square roots, quotients and normalizations of the conversion give for
\* a matrix of fractions; a quaternion is the tuple <<real, i, j, k>>. The
\* code computes the same numbers in double precision, which the rounding to
\* half precision hides unless a number lies within 1e-15 of the midpoint of
\* two half-precision numbers.

\* Gf.Matrix4d(*instanceTransform): entry (row, col), counted from 0
Entry(mat, row, col) == mat.m[4 * row + col + 1]

\* GfMatrix4d.ExtractTranslation: the first three entries of the last row
ExtractTranslation(mat) ==
    [n |-> <<Entry(mat, 3, 0), Entry(mat, 3, 1), Entry(mat, 3, 2)>>, d |-> mat.den]

Sign(x) == IF x > 0 THEN 1 ELSE IF x < 0 THEN -1 ELSE 0

\* x + y, x * y and x / y of fractions (y # 0 for the quotient), with the
\* common factors taken out before the products are formed
Plus(x, y) ==
    LET g == Gcd(x.den, y.den) IN
    Fraction(x.num * (y.den \div g) + y.num * (x.den \div g), (x.den \div g) * y.den)

Times(x, y) ==
    LET g == Gcd(Abs(x.num), y.den)
        h == Gcd(Abs(y.num), x.den)
    IN  Fraction((x.num \div g) * (y.num \div h), (x.den \div h) * (y.den \div g))

Over(x, y) == Times(x, [num |-> Sign(y.num) * y.den, den |-> Abs(y.num)])

\* sign * sqrt(square)
SignedRoot(sign, square) ==
    IF sign = 0 \/ square.num = 0 THEN [sign |-> 0, square |-> Fraction(0, 1)]
    ELSE [sign |-> sign, square |-> square]

\* the fraction num / den as a quaternion component
Component(num, den) == SignedRoot(Sign(num), Fraction(num * num, den * den))

\* GfQuaternion.GetIdentity
QuaternionIdentity ==
    <<Component(1, 1), Component(0, 1), Component(0, 1), Component(0, 1)>>

\* GfClamp(x, -1.0, 1.0)
Clamp(x) == IF Less(Fraction(1, 1), x.square) THEN SignedRoot(x.sign, Fraction(1, 1)) ELSE x

\* GfMatrix4d.ExtractRotationQuat: the quaternion of the upper 3x3 block,
\* from the trace or from the largest diagonal entry; the number under the
\* square root is positive for every affine transform (last column 0, 0, 0, 1)
ExtractRotationQuat(mat) ==
    LET m(i, j) == Entry(mat, i, j)
        trace == m(0, 0) + m(1, 1) + m(2, 2)
        \* x / (4 * (0.5 * sqrt(under))), x and under over mat.den
        Quotient(x, under) == SignedRoot(Sign(x), Fraction(x * x, 4 * under * mat.den))
        FromTrace(under) ==
            <<Clamp(SignedRoot(1, Fraction(under, 4 * mat.den))),
              Quotient(m(1, 2) - m(2, 1), under),
              Quotient(m(2, 0) - m(0, 2), under),
              Quotient(m(0, 1) - m(1, 0), under)>>
        FromDiagonal(i, j, k, under) ==
            LET im == [x \in {i, j, k} |->
                          IF x = i THEN SignedRoot(1, Fraction(under, 4 * mat.den))
                          ELSE IF x = j THEN Quotient(m(i, j) + m(j, i), under)
                          ELSE Quotient(m(k, i) + m(i, k), under)]
            IN  <<Clamp(Quotient(m(j, k) - m(k, j), under)), im[0], im[1], im[2]>>
        \* the branch taken when the largest diagonal entry is m(i, i)
        Extract(i, j, k) ==
            IF trace > m(i, i) THEN FromTrace(trace + m(3, 3))
            ELSE FromDiagonal(i, j, k, m(i, i) - m(j, j) - m(k, k) + m(3, 3))
    IN  IF m(0, 0) > m(1, 1)
        THEN (IF m(0, 0) > m(2, 2) THEN Extract(0, 1, 2) ELSE Extract(2, 0, 1))
        ELSE (IF m(1, 1) > m(2, 2) THEN Extract(1, 2, 0) ELSE Extract(2, 0, 1))

\* real^2 + |imaginary|^2
NormSquared(q) == Plus(Plus(q[1].square, q[2].square), Plus(q[3].square, q[4].square))

\* GfQuaternion.GetNormalized: the quaternion divided by its length, the
\* identity when the length is 0
GetNormalized(q) ==
    LET lengthSquared == NormSquared(q) IN
    IF lengthSquared.num = 0 THEN QuaternionIdentity
    ELSE [c \in 1..4 |-> SignedRoot(q[c].sign, Over(q[c].square, lengthSquared))]

\* GfMatrix4d.ExtractRotation().GetQuaternion(): GfRotation keeps the
\* quaternion of ExtractRotationQuat as the axis imaginary / |imaginary| and
\* the angle 2 * acos(real), the identity when the imaginary part is 0;
\* GetQuaternion gives (cos(angle / 2), axis * sin(angle / 2)), normalized
ExtractRotation(mat) ==
    LET GetQuaternion(quat) ==
            LET lengthSquared == Plus(quat[2].square, Plus(quat[3].square, quat[4].square))
                sinSquared == Plus(Fraction(1, 1), Times(Fraction(-1, 1), quat[1].square))
            IN  IF lengthSquared.num = 0 THEN QuaternionIdentity
                ELSE GetNormalized(
                        [c \in 1..4 |->
                            IF c = 1 THEN quat[1]
                            ELSE SignedRoot(quat[c].sign,
                                            Times(Over(quat[c].square, lengthSquared),
                                                  sinSquared))])
    IN  GetQuaternion(ExtractRotationQuat(mat))

\* the number of binary places of a half-precision significand
HalfPlaces == 10

\* stored numbers are counted in units of 2^-HalfUnitPlaces
HalfUnitPlaces == 14

Pow2(e) == 2 ^ e

\* a / b < c / d for a, c >= 0 and b, d > 0, by the integer parts and then the
\* remainders, so that no product is formed
RECURSIVE RatioLess(_, _, _, _)
RatioLess(a, b, c, d) ==
    IF a \div b # c \div d THEN a \div b < c \div d
    ELSE IF c % d = 0 THEN FALSE
    ELSE IF a % b = 0 THEN TRUE
    ELSE RatioLess(d, c % d, b, a % b)

\* the least k >= 0 with square * 4^k >= 1: the root lies in [2^-k, 2^(1-k))
RECURSIVE BinaryPlace(_, _)
BinaryPlace(square, k) ==
    IF square.num * Pow2(2 * k) >= square.den THEN k ELSE BinaryPlace(square, k + 1)

\* the greatest integer of lo..hi that is at most sqrt(square) * 2^e, by
\* bisection
RECURSIVE FloorBetween(_, _, _, _)
FloorBetween(square, e, lo, hi) ==
    IF lo >= hi THEN lo
    ELSE LET mid == (lo + hi + 1) \div 2 IN
         IF RatioLess(square.num, square.den, mid * mid, Pow2(2 * e))
         THEN FloorBetween(square, e, lo, mid - 1)
         ELSE FloorBetween(square, e, mid, hi)

\* a conversion that rounds toward zero
RoundTowardZero(square, e, places) ==
    FloorBetween(square, e, Pow2(places), Pow2(places + 1))

\* sqrt(square) * 2^e, a number between 2^places and 2^(places + 1), rounded
\* to the nearest integer, ties to even
RoundHalfEven(square, e, places) ==
    LET Nearest(below, midpoint) ==
            IF RatioLess(midpoint, Pow2(2 * e + 2), square.num, square.den) THEN below + 1
            ELSE IF RatioLess(square.num, square.den, midpoint, Pow2(2 * e + 2)) THEN below
            ELSE below + (below % 2)
        Rounded(below) == Nearest(below, (2 * below + 1) * (2 * below + 1))
    IN  Rounded(FloorBetween(square, e, Pow2(places), Pow2(places + 1)))

\* x (0 or of magnitude between 2^-4 and 1) rounded to a binary
\* floating-point number with a significand of `places` places, in units of
\* 2^-HalfUnitPlaces
RoundToPlaces(x, places) ==
    IF x.sign = 0 THEN 0
    ELSE LET Scaled(k) ==
                 x.sign * RoundHalfEven(x.square, places + k, places)
                     * Pow2(HalfUnitPlaces - places - k)
         IN  Scaled(BinaryPlace(x.square, 0))

\* the conversion of a double to half precision (GfHalf), done by Gf.Quath
\* and Gf.Vec3h on each component
RoundToHalf(x) == RoundToPlaces(x, HalfPlaces)

\* Gf.Quath(real, Gf.Vec3h(imaginary)): the four components in half precision
Quath(q) == [i \in 1..4 |-> RoundToHalf(q[i])]

\* the body of the loop over instances.items() for one instance
AppendInstance(buffers, instanceTransform) ==
    LET transformMatrix == instanceTransform
        quaternion == GetNormalized(ExtractRotation(transformMatrix))
    IN  [positionsBuffer |-> Append(buffers.positionsBuffer,
                                    ExtractTranslation(transformMatrix)),
         orientationsBuffer |-> Append(buffers.orientationsBuffer, Quath(quaternion))]

\* for instanceName, instanceTransform in instances.items()
RECURSIVE InstancesLoop(_, _)
InstancesLoop(buffers, instances) ==
    IF instances = <<>> THEN buffers
    ELSE InstancesLoop(AppendInstance(buffers, Head(instances)), Tail(instances))

\* an array that numbers the instances
ProtoIndicesCounting(count) == [i \in 1..count |-> i - 1]

\* [0] * len(instances.items())
ProtoIndices(count) == [i \in 1..count |-> 0]

InstancersPrimSpecPath == <<"/", "I", "n", "s", "t", "a", "n", "c", "e", "r", "s">>

\* the PointInstancer prim written for one entry (name, instances) of jsonData
PointInstancerPrim(name, instances) ==
    LET Instancer(path, buffers) ==
            [path |-> path,
             positions |-> buffers.positionsBuffer,
             orientations |-> buffers.orientationsBuffer,
             protoIndices |-> ProtoIndices(Len(instances)),
             mesh |-> GetAssetFilePathFromOBJFilePath(name),
             prototypes |-> <<path \o <<"/", "m", "e", "s", "h">>>>]
    IN  Instancer(InstancersPrimSpecPath \o <<"/">> \o GetFileBasename(name),
                  InstancesLoop([positionsBuffer |-> <<>>, orientationsBuffer |-> <<>>],
                                instances))

MaxInstances == 2

\* the identity
TransformIdentity ==
    [m |-> <<1, 0, 0, 0,
           0, 1, 0, 0,
           0, 0, 1, 0,
           0, 0, 0, 1>>,
     den |-> 1]

\* a shear of x along y and a translation by (1, 2, 3): not rigid
TransformSheared ==
    [m |-> <<1, 1, 0, 0,
           0, 1, 0, 0,
           0, 0, 1, 0,
           1, 2, 3, 1>>,
     den |-> 1]

\* a rotation about x with cos = 7/25, sin = 24/25, and a translation
TransformTurnX ==
    [m |-> <<25, 0, 0, 0,
           0, 7, 24, 0,
           0, -24, 7, 0,
           0, 25, 0, 25>>,
     den |-> 25]

\* a rotation of quaternion (3, 1, 1, 3) / sqrt(20)
TransformTurnXYZ ==
    [m |-> <<0, 5, 0, 0,
           -4, 0, 3, 0,
           3, 0, 4, 0,
           0, 0, 0, 5>>,
     den |-> 5]

\* a quarter turn about z, of quaternion (1, 0, 0, 1) / sqrt(2)
TransformQuarterTurnZ ==
    [m |-> <<0, 1, 0, 0,
           -1, 0, 0, 0,
           0, 0, 1, 0,
           0, 0, 0, 1>>,
     den |-> 1]

\* a half turn about z, and a translation
TransformHalfTurnZ ==
    [m |-> <<-1, 0, 0, 0,
           0, -1, 0, 0,
           0, 0, 1, 0,
           2, 0, 0, 1>>,
     den |-> 1]

\* a quarter turn about z at half size, and a translation: not rigid
TransformHalfSize ==
    [m |-> <<0, 1, 0, 0,
           -1, 0, 0, 0,
           0, 0, 1, 0,
           0, 1, 0, 2>>,
     den |-> 2]

\* a quarter turn about z with a shear of x along z: not rigid
TransformSkewed ==
    [m |-> <<0, 1, 1, 0,
           -1, 0, 0, 0,
           0, 0, 1, 0,
           0, 0, 0, 1>>,
     den |-> 1]

\* the transforms of the instances: affine, rigid or not
InstanceTransforms ==
    {TransformIdentity, TransformSheared, TransformTurnX, TransformTurnXYZ,
     TransformQuarterTurnZ, TransformHalfTurnZ, TransformHalfSize, TransformSkewed}

\* the instances of one prototype, in the iteration order of the mapping
InstanceLists ==
    UNION {[1..len -> InstanceTransforms] : len \in 0..MaxInstances}

\* the instance lists of a prototype that has one instance at most
ShortInstanceLists == {a \in InstanceLists : Len(a) <= 1}

\* the definition files: one prototype, or two with different or equal base
\* names, in either order
JsonDataChoices ==
    {<<[name |-> OBJ_at, instances |-> a]>> : a \in InstanceLists}
    \cup UNION {Items({[name |-> OBJ_at, instances |-> a], [name |-> other, instances |-> b]}) :
            a \in InstanceLists, b \in ShortInstanceLists, other \in {OBJ_au, OBJ_bt}}

VARIABLES
    jsonData,    \* input: the definition file, as (name, instances) pairs in order
    bpc,         \* "idle", "open", "instancers", "exported" or "raised"
    proto,       \* the number of entries of jsonData handled
    batchLayer,  \* the PointInstancer prims of the anonymous layer
    batchFile    \* the exported sub-instance stage, <<>> before the export

batchVars == <<jsonData, bpc, proto, batchLayer, batchFile>>

BatchStart ==
    /\ proto = 0
    /\ batchLayer = <<>>
    /\ batchFile = <<>>

BatchInit ==
    /\ jsonData \in JsonDataChoices
    /\ bpc = "open"
    /\ BatchStart

\* the state of the batch variables where no definition file is parsed
BatchIdle ==
    /\ jsonData = <<>>
    /\ bpc = "idle"
    /\ BatchStart

parseVars == <<objStream, line, nread, pc, err, layer, materialInfo, shading>>

runVars == <<objFiles, elementFiles, missingJson, omitSmallInstances, files, run, rpc, todo, ei,
             stage, pending, parsed, atStart, prevDone>>

vars == <<parseVars, runVars, batchVars>>

ParseInit ==
    /\ objStream = OBJStream
    /\ line = <<>>
    /\ nread = 0
    /\ pc = "parsing"
    /\ err = "none"
    /\ layer = <<>>
    /\ materialInfo = MaterialsEmpty
    /\ shading = <<>>

NoFiles == [f \in {} |-> 0]

NoCalls ==
    [obj |-> [p \in AssetPaths |-> 0],
     element |-> [e \in 1..NumElements |-> 0],
     json |-> [p \in JsonPaths |-> 0]]

\* files that do not have a translated stage yet (asset_converter.py 637-641)
RECURSIVE AssetsOBJFilesThatDoNotExist(_, _)
AssetsOBJFilesThatDoNotExist(assetOBJFiles, dir) ==
    IF assetOBJFiles = <<>> THEN <<>>
    ELSE (IF GetAssetsStagePath(Head(assetOBJFiles)) \notin DOMAIN dir
          THEN <<Head(assetOBJFiles)>> ELSE <<>>)
         \o AssetsOBJFilesThatDoNotExist(Tail(assetOBJFiles), dir)

\* the files of the list handled before the first one that cannot be read
RECURSIVE Readable(_, _)
Readable(jsonFiles, missing) ==
    IF jsonFiles = <<>> \/ Head(jsonFiles) \in missing THEN <<>>
    ELSE <<Head(jsonFiles)>> \o Readable(Tail(jsonFiles), missing)

\* the state at the start of the first run, over a destination directory
\* that SceneConverter.convert has just made
RunStart ==
    /\ files = NoFiles
    /\ run = 1
    /\ rpc = "cameras"
    /\ todo = <<>>
    /\ ei = 0
    /\ stage = <<>>
    /\ pending = <<>>
    /\ parsed = NoCalls
    /\ atStart = NoFiles
    /\ prevDone = FALSE

\* the inputs of a run. A run whose camera or light files cannot be read ends
\* before it reads any other input: the other inputs are then fixed.
RunInit ==
    /\ missingJson \in MissingChoices
    /\ IF Readable(CameraJSONFiles \o LightJSONFiles, missingJson)
            = CameraJSONFiles \o LightJSONFiles
       THEN /\ objFiles \in [AssetPaths -> SampleFiles]
            /\ elementFiles \in {<<d1, d2>> : d1 \in E1Defs, d2 \in E2Defs}
            /\ omitSmallInstances \in BOOLEAN
       ELSE /\ objFiles = [p \in AssetPaths |-> FileMesh]
            /\ elementFiles = <<ElementDef(E1Name, "identity", OBJ_at, <<>>, <<>>),
                                ElementDef(E2Name, "identity", OBJ_au, <<SubA>>, <<>>)>>
            /\ omitSmallInstances = FALSE
    /\ RunStart

\* the inputs of the parser specification, in which no run takes place
RunIdle ==
    /\ objFiles = [p \in AssetPaths |-> FileMesh]
    /\ elementFiles = <<ElementDef(E1Name, "identity", OBJ_at, <<>>, <<>>),
                        ElementDef(E2Name, "identity", OBJ_au, <<SubA>>, <<>>)>>
    /\ missingJson = {}
    /\ omitSmallInstances = FALSE
    /\ RunStart

Init == ParseInit /\ RunIdle /\ BatchIdle

\* one iteration of `for line in f` in getOBJStreamForFile
ReadLine ==
    /\ pc = "parsing"
    /\ nread < MaxLines
    /\ \E l \in FileLines :
        LET r == ProcessLine(objStream, l) IN
        /\ line' = l
        /\ nread' = nread + 1
        /\ err' = r.err
        /\ IF r.err = "none"
           THEN objStream' = r.s /\ pc' = pc
           ELSE objStream' = objStream /\ pc' = "raised"
    /\ UNCHANGED <<layer, materialInfo, shading>>
    /\ UNCHANGED runVars
    /\ UNCHANGED batchVars

\* the end of the file: getOBJStreamForFile returns the stream
EndOfFile ==
    /\ pc = "parsing"
    /\ pc' = "parsed"
    /\ line' = <<>>
    /\ nread' = 0
    /\ UNCHANGED <<objStream, err, layer, materialInfo, shading>>
    /\ UNCHANGED runVars
    /\ UNCHANGED batchVars

\* AssetConverter._translateOBJFileIntoUSD, after the parse, for the first
\* geometry file of the list
Translate ==
    /\ pc = "parsed"
    /\ IF HasVerts(objStream)
       THEN \E materials \in MaterialFiles :
            LET r == ConvertOBJToUSD(AssetOBJFiles[1], objStream, materials) IN
            /\ materialInfo' = materials
            /\ err' = r.err
            /\ layer' = r.meshes
            /\ shading' = r.materials
            /\ pc' = IF r.err = "none" THEN "exported" ELSE "raised"
       ELSE pc' = "skipped" /\ UNCHANGED <<err, layer, materialInfo, shading>>
    /\ UNCHANGED <<objStream, line, nread>>
    /\ UNCHANGED runVars
    /\ UNCHANGED batchVars

Next == ReadLine \/ EndOfFile \/ Translate

Spec == Init /\ [][Next]_vars

(***************************************************************************)
(* A run of SceneConverter.convert: CameraConverter.convert,                *)
(* LightConverter.convert, AssetConverter._createAssets,                    *)
(* ElementConverter._createElements, then _createSceneStage                 *)
(***************************************************************************)
\* a file written (or replaced) in the primitives directory
WriteFile(dir, name, content) ==
    [f \in DOMAIN dir \cup {name} |-> IF f = name THEN content ELSE dir[f]]

RECURSIVE ParseLines(_, _)
ParseLines(r, lines) ==
    IF lines = <<>> \/ r.err # "none" THEN r
    ELSE ParseLines(ProcessLine(r.s, Head(lines)), Tail(lines))

\* getOBJStreamForFile over a whole file
GetOBJStreamForFile(content) == ParseLines(Ok(OBJStream), content)

Count(calls, kind, key) == [calls EXCEPT ![kind][key] = @ + 1]

\* CameraConverter.getCameraStageFilePath, within the primitives directory
GetCameraStageFilePath == <<"_", "c", "a", "m", "e", "r", "a", "s">> \o USDFileExtension

\* LightConverter.getLightStageFilePath, within the primitives directory
GetLightStageFilePath == <<"_", "l", "i", "g", "h", "t", "s">> \o USDFileExtension

\* the scene stage, written next to the primitives directory
SceneStageFilePath ==
    <<".", ".", "/", "M", "o", "a", "n", "a", "I", "s", "l", "a", "n", "d">> \o USDFileExtension

\* CameraConverter.convert: every camera file is opened and loaded, then the
\* camera stage is exported; open() raises on a file that cannot be read
CreateCameras ==
    /\ rpc = "cameras"
    /\ IF Readable(CameraJSONFiles, missingJson) # CameraJSONFiles
       THEN rpc' = "aborted" /\ UNCHANGED files
       ELSE /\ files' = WriteFile(files, GetCameraStageFilePath,
                            [kind |-> "cameras", complete |-> TRUE,
                             source |-> <<>>, prims |-> CameraJSONFiles])
            /\ rpc' = "lights"
    /\ UNCHANGED <<objFiles, elementFiles, missingJson, omitSmallInstances, run, todo, ei, stage,
                   pending, parsed, atStart, prevDone>>
    /\ UNCHANGED parseVars
    /\ UNCHANGED batchVars

\* LightConverter.convert: the lights file is loaded, then the light stage
\* is exported
CreateLights ==
    /\ rpc = "lights"
    /\ IF Readable(LightJSONFiles, missingJson) # LightJSONFiles
       THEN rpc' = "aborted" /\ UNCHANGED files
       ELSE /\ files' = WriteFile(files, GetLightStageFilePath,
                            [kind |-> "lights", complete |-> TRUE,
                             source |-> <<>>, prims |-> LightJSONFiles])
            /\ rpc' = "create_assets"
    /\ UNCHANGED <<objFiles, elementFiles, missingJson, omitSmallInstances, run, todo, ei, stage,
                   pending, parsed, atStart, prevDone>>
    /\ UNCHANGED parseVars
    /\ UNCHANGED batchVars

\* AssetConverter._createAssets up to its loop: the files of the list that
\* have no translated stage yet
CreateAssets ==
    /\ rpc = "create_assets"
    /\ todo' = AssetsOBJFilesThatDoNotExist(AssetOBJFiles, files)
    /\ rpc' = "assets"
    /\ UNCHANGED <<objFiles, elementFiles, missingJson, omitSmallInstances, files, run, ei, stage,
                   pending, parsed, atStart, prevDone>>
    /\ UNCHANGED parseVars
    /\ UNCHANGED batchVars

\* one iteration of the loop of _createAssets: _translateOBJFileIntoUSD.
\* An exception leaves the loop and ends the run.
TranslateAsset ==
    /\ rpc = "assets"
    /\ todo # <<>>
    /\ LET assetOBJPath == Head(todo)
           r == GetOBJStreamForFile(objFiles[assetOBJPath])
           c == ConvertOBJToUSD(assetOBJPath, r.s, MaterialsPlain)
       IN  /\ parsed' = Count(parsed, "obj", assetOBJPath)
           /\ IF r.err # "none" THEN
                 rpc' = "aborted" /\ UNCHANGED <<files, todo>>
              ELSE IF ~HasVerts(r.s) THEN
                 todo' = Tail(todo) /\ UNCHANGED <<files, rpc>>
              ELSE IF c.err # "none" THEN
                 rpc' = "aborted" /\ UNCHANGED <<files, todo>>
              ELSE
                 /\ files' = WriteFile(files, GetAssetsStagePath(assetOBJPath),
                                [kind |-> "asset", complete |-> TRUE,
                                 source |-> assetOBJPath,
                                 defaultPrim |-> ElementName(assetOBJPath),
                                 prims |-> c.meshes, materials |-> c.materials])
                 /\ todo' = Tail(todo)
                 /\ UNCHANGED rpc
    /\ UNCHANGED <<objFiles, elementFiles, missingJson, omitSmallInstances, run, ei, stage, pending,
                   atStart, prevDone>>
    /\ UNCHANGED parseVars
    /\ UNCHANGED batchVars

\* the asset loop is over: SceneConverter.convert goes on to _createElements
CreateElements ==
    /\ rpc = "assets"
    /\ todo = <<>>
    /\ rpc' = "elements"
    /\ ei' = 1
    /\ UNCHANGED <<objFiles, elementFiles, missingJson, omitSmallInstances, files, run, todo, stage,
                   pending, parsed, atStart, prevDone>>
    /\ UNCHANGED parseVars
    /\ UNCHANGED batchVars

\* copies that take the geometry and the sub-instances of the element only
RECURSIVE CopyInstancesOfParent(_, _)
CopyInstancesOfParent(elementData, copies) ==
    IF copies = <<>> THEN <<>>
    ELSE <<[name |-> Head(copies).name,
            transform |-> Head(copies).transformMatrix,
            subInstances |-> elementData.instancedPrimitiveJsonFiles,
            geometryFile |-> elementData.geomObjFile]>>
         \o CopyInstancesOfParent(elementData, Tail(copies))

\* the instances of an element: the primary one, then its instanced copies
RECURSIVE CopyInstances(_, _)
CopyInstances(elementData, copies) ==
    IF copies = <<>> THEN <<>>
    ELSE LET instanceData == Head(copies) IN
         <<[name |-> instanceData.name,
            transform |-> instanceData.transformMatrix,
            subInstances |->
                IF instanceData.hasSubs THEN instanceData.instancedPrimitiveJsonFiles
                ELSE elementData.instancedPrimitiveJsonFiles,
            geometryFile |->
                IF instanceData.hasGeom THEN instanceData.geomObjFile
                ELSE elementData.geomObjFile]>>
         \o CopyInstances(elementData, Tail(copies))

ElementInstances(elementData) ==
    <<[name |-> elementData.name,
       transform |-> elementData.transformMatrix,
       subInstances |-> elementData.instancedPrimitiveJsonFiles,
       geometryFile |-> elementData.geomObjFile]>>
    \o CopyInstances(elementData, elementData.instancedCopies)

\* _handleElementFile up to the first _createInstance: the element file is
\* loaded and Usd.Stage.CreateNew creates the (empty) stage file at its path
HandleElementFile ==
    /\ rpc = "elements"
    /\ ei <= NumElements
    /\ LET elementData == elementFiles[ei] IN
        /\ parsed' = Count(parsed, "element", ei)
        /\ files' = WriteFile(files, GetElementStageFilePath(elementData.name),
                        [kind |-> "element", complete |-> FALSE,
                         source |-> elementData.name, prims |-> <<>>])
        /\ stage' = <<>>
        /\ pending' = ElementInstances(elementData)
    /\ rpc' = "in_element"
    /\ UNCHANGED <<objFiles, elementFiles, missingJson, omitSmallInstances, run, todo, ei, atStart, prevDone>>
    /\ UNCHANGED parseVars
    /\ UNCHANGED batchVars

\* a check that never finds the stage of a sub-instance
SubInstanceStageNeverExists(dir, subInstanceStageFilePath) == FALSE

\* a check that finds a stage for every sub-instance
SubInstanceStageAlwaysExists(dir, subInstanceStageFilePath) == TRUE

\* os.path.exists(subInstanceStageFilePath) in _createInstance
SubInstanceStageExists(dir, subInstanceStageFilePath) ==
    subInstanceStageFilePath \in DOMAIN dir

\* whether _createInstance materializes and references this sub-instance
IsInstanced(subInstanceName, subInstanceData) ==
    subInstanceData.type = "archive" /\ ~SubInstanceIsTooSmallToInstance(subInstanceName)

\* the loop of _createInstance over subInstances.items(); acc is
\* [files, calls, refs, err]
RECURSIVE SubInstancesLoop(_, _, _)
SubInstancesLoop(acc, subInstances, missing) ==
    IF subInstances = <<>> \/ acc.err # "none" THEN acc
    ELSE LET sub == Head(subInstances)
             subInstanceStageFilePath == GetAssetSubInstanceStageFilePath(sub.jsonFile)
         IN  IF ~IsInstanced(sub.name, sub)
             THEN SubInstancesLoop(acc, Tail(subInstances), missing)
             ELSE IF SubInstanceStageExists(acc.files, subInstanceStageFilePath)
             THEN SubInstancesLoop(
                    [acc EXCEPT !.refs = Append(@, [name |-> sub.name,
                                                     ref |-> subInstanceStageFilePath])],
                    Tail(subInstances), missing)
             \* _parseInstanceJSONFile: open() raises on a file that cannot be read
             ELSE IF sub.jsonFile \in missing
             THEN [acc EXCEPT !.calls = Count(@, "json", sub.jsonFile),
                              !.err = "IOError"]
             ELSE SubInstancesLoop(
                    [acc EXCEPT
                        !.files = WriteFile(@, subInstanceStageFilePath,
                                    [kind |-> "instances", complete |-> TRUE,
                                     source |-> sub.jsonFile, prims |-> <<>>]),
                        !.calls = Count(@, "json", sub.jsonFile),
                        !.refs = Append(@, [name |-> sub.name,
                                            ref |-> subInstanceStageFilePath])],
                    Tail(subInstances), missing)

\* ElementConverter._createInstance for one instance of the element
CreateInstance ==
    /\ rpc = "in_element"
    /\ pending # <<>>
    /\ LET inst == Head(pending)
           r == SubInstancesLoop([files |-> files, calls |-> parsed, refs |-> <<>>,
                                  err |-> "none"],
                                 inst.subInstances, missingJson)
           prim == [name |-> inst.name,
                    transform |-> inst.transform,
                    geometry |-> IF inst.geometryFile # <<>>
                                 THEN GetAssetFilePathFromOBJFilePath(inst.geometryFile)
                                 ELSE <<>>,
                    subRefs |-> r.refs]
       IN  /\ files' = r.files
           /\ parsed' = r.calls
           /\ IF r.err # "none"
              THEN rpc' = "aborted" /\ UNCHANGED <<stage, pending>>
              ELSE /\ stage' = Append(stage, prim)
                   /\ pending' = Tail(pending)
                   /\ UNCHANGED rpc
    /\ UNCHANGED <<objFiles, elementFiles, missingJson, omitSmallInstances, run, todo, ei, atStart, prevDone>>
    /\ UNCHANGED parseVars
    /\ UNCHANGED batchVars

\* the end of _processElementData: elementStage.GetRootLayer().Save()
SaveElement ==
    /\ rpc = "in_element"
    /\ pending = <<>>
    /\ files' = WriteFile(files, GetElementStageFilePath(elementFiles[ei].name),
                    [kind |-> "element", complete |-> TRUE,
                     source |-> elementFiles[ei].name, prims |-> stage])
    /\ ei' = ei + 1
    /\ rpc' = "elements"
    /\ stage' = <<>>
    /\ UNCHANGED <<objFiles, elementFiles, missingJson, omitSmallInstances, run, todo, pending, parsed,
                   atStart, prevDone>>
    /\ UNCHANGED parseVars
    /\ UNCHANGED batchVars

\* the sub-stages the scene stage references: the cameras, the lights and
\* the stage of every element of the list, existing or not
RECURSIVE SubStageFilePaths(_)
SubStageFilePaths(elementNames) ==
    IF elementNames = <<>> THEN <<>>
    ELSE <<GetElementStageFilePath(Head(elementNames))>>
         \o SubStageFilePaths(Tail(elementNames))

\* the element loop is over: SceneConverter.convert goes on to the scene stage
FinishElements ==
    /\ rpc = "elements"
    /\ ei > NumElements
    /\ rpc' = "scene"
    /\ UNCHANGED <<objFiles, elementFiles, missingJson, omitSmallInstances, files, run, todo, ei, stage,
                   pending, parsed, atStart, prevDone>>
    /\ UNCHANGED parseVars
    /\ UNCHANGED batchVars

\* SceneConverter._createSceneStage: the layer that references every
\* sub-stage is exported, and the run ends
CreateSceneStage ==
    /\ rpc = "scene"
    /\ files' = WriteFile(files, SceneStageFilePath,
                    [kind |-> "scene", complete |-> TRUE, source |-> <<>>,
                     prims |-> <<GetCameraStageFilePath, GetLightStageFilePath>>
                               \o SubStageFilePaths(ElementJSONFiles)])
    /\ rpc' = "done"
    /\ UNCHANGED <<objFiles, elementFiles, missingJson, omitSmallInstances, run, todo, ei, stage,
                   pending, parsed, atStart, prevDone>>
    /\ UNCHANGED parseVars
    /\ UNCHANGED batchVars

\* the conversion is started again over the same inputs and the directory
\* the earlier run left
NextRun ==
    /\ rpc \in {"done", "aborted"}
    /\ run < MaxRuns
    /\ run' = run + 1
    /\ prevDone' = (rpc = "done")
    /\ atStart' = files
    /\ parsed' = NoCalls
    /\ todo' = <<>>
    /\ rpc' = "cameras"
    /\ ei' = 0
    /\ stage' = <<>>
    /\ pending' = <<>>
    /\ UNCHANGED <<objFiles, elementFiles, missingJson, omitSmallInstances, files>>
    /\ UNCHANGED parseVars
    /\ UNCHANGED batchVars

RunNext ==
    \/ CreateCameras
    \/ CreateLights
    \/ CreateAssets
    \/ TranslateAsset
    \/ CreateElements
    \/ HandleElementFile
    \/ CreateInstance
    \/ SaveElement
    \/ FinishElements
    \/ CreateSceneStage
    \/ NextRun

RunSpecInit == ParseInit /\ RunInit /\ BatchIdle

RunSpec == RunSpecInit /\ [][RunNext]_vars

(***************************************************************************)
(* The conversion of one sub-instance definition file                       *)
(***************************************************************************)
PrimPaths(prims) == {prims[i].path : i \in 1..Len(prims)}

\* _parseInstanceJSONFile up to the loop: the file is loaded and the
\* /Instancers prim is created in an anonymous layer
OpenBatch ==
    /\ bpc = "open"
    /\ bpc' = "instancers"
    /\ UNCHANGED <<jsonData, proto, batchLayer, batchFile>>
    /\ UNCHANGED <<parseVars, runVars>>

\* one iteration of `for name, instances in jsonData.items()`. Two names with
\* one base name give one prim path: the layer refuses to create the
\* `positions` attribute a second time and the call raises.
WriteInstancer ==
    /\ bpc = "instancers"
    /\ proto < Len(jsonData)
    /\ LET entry == jsonData[proto + 1]
           Write(prim) ==
               IF prim.path \in PrimPaths(batchLayer)
               THEN bpc' = "raised" /\ UNCHANGED <<proto, batchLayer>>
               ELSE /\ batchLayer' = Append(batchLayer, prim)
                    /\ proto' = proto + 1
                    /\ UNCHANGED bpc
       IN  Write(PointInstancerPrim(entry.name, entry.instances))
    /\ UNCHANGED <<jsonData, batchFile>>
    /\ UNCHANGED <<parseVars, runVars>>

\* layer.Export(subInstanceStageFilePath)
ExportBatch ==
    /\ bpc = "instancers"
    /\ proto = Len(jsonData)
    /\ batchFile' = batchLayer
    /\ bpc' = "exported"
    /\ UNCHANGED <<jsonData, proto, batchLayer>>
    /\ UNCHANGED <<parseVars, runVars>>

BatchNext == OpenBatch \/ WriteInstancer \/ ExportBatch

BatchSpecInit == ParseInit /\ RunIdle /\ BatchInit

BatchSpec == BatchSpecInit /\ [][BatchNext]_vars

(***************************************************************************)
(* Properties of the parser and of the mesh assembly                        *)
(***************************************************************************)
RECURSIVE SumSeq(_)
SumSeq(q) == IF q = <<>> THEN 0 ELSE Head(q) + SumSeq(Tail(q))

Meshes == {layer[i] : i \in 1..Len(layer)}

\* the group of the stream a mesh was written for
GroupNamed(name) ==
    objStream.groups[CHOOSE i \in 1..Len(objStream.groups) : objStream.groups[i].name = name]

\* the positions in the point table of the points of a group's faces
GroupPointIndices(group) ==
    UNION {face.pointsBegin..(face.pointsEnd - 1) :
            face \in {group.faces[i] : i \in 1..Len(group.faces)}}

\* the vertex-table entries a group's faces resolve to
ReferencedEntries(group) ==
    {PyIndex(objStream.points[p + 1].vertIndex, Len(objStream.verts)) :
        p \in GroupPointIndices(group)}

\* C1: the compacted vertex buffer of every mesh has exactly one entry per
\* distinct vertex-table entry referenced by its group's faces (no
\* vertex-table entry is appended twice).
C1_OneEntryPerVertex ==
    pc = "exported" =>
        \A mesh \in Meshes :
            Len(mesh.points) = Cardinality(ReferencedEntries(GroupNamed(mesh.name)))

\* C2: every entry of the faceVertexIndices array written to a mesh is >= 0
\* and < the length of that mesh's compacted vertex buffer.
C2_IndexValidity ==
    pc = "exported" =>
        \A mesh \in Meshes : \A i \in 1..Len(mesh.faceVertexIndices) :
            /\ mesh.faceVertexIndices[i] >= 0
            /\ mesh.faceVertexIndices[i] < Len(mesh.points)

\* a mesh whose buffer is shorter than the vertex table: its group references
\* vertex 2 only, which is given compacted index 0
C2_Witness ==
    /\ pc = "exported"
    /\ \E mesh \in Meshes :
        /\ Len(mesh.points) < Len(objStream.verts)
        /\ Len(mesh.faceVertexIndices) >= 3
        /\ \E p \in GroupPointIndices(GroupNamed(mesh.name)) :
            objStream.points[p + 1].vertIndex >= Len(mesh.points)

\* C3: for every mesh, the sum of faceVertexCounts equals the length of the
\* faceVertexIndices array written for it.
C3_FaceCountConservation ==
    pc = "exported" =>
        \A mesh \in Meshes :
            SumSeq(mesh.faceVertexCounts) = Len(mesh.faceVertexIndices)

\* a mesh made of two faces
C3_Witness ==
    /\ pc = "exported"
    /\ \E mesh \in Meshes :
        Len(mesh.faceVertexCounts) >= 2 /\ Len(mesh.faceVertexIndices) >= 6

\* a `g` line, and the group it names
IsGroupLine(l) == Word(Strip(l)) = <<"g">>

GroupLineName(l) ==
    LET n == Remove(Strip(l), <<"g", " ">>) IN IF n = <<"g">> THEN DefaultName ELSE n

\* C4: after a `g` line is read, the active group (GetCurrentGroup, the group
\* that receives the following faces) is the group that line names, whether the
\* group is new or already exists.
C4_GroupLineActivates ==
    (pc = "parsing" /\ nread > 0 /\ IsGroupLine(line)) =>
        GetCurrentGroup(objStream) = GroupLineName(line)

\* C7: a face reference whose vertex index names no entry of the vertex table
\* (file index 0, negative, or beyond the table) never ends in an exported
\* mesh: the conversion of that asset raises.
C7_BadReferenceRaises ==
    pc = "exported" =>
        \A p \in 1..Len(objStream.points) :
            /\ objStream.points[p].vertIndex >= 0
            /\ objStream.points[p].vertIndex < Len(objStream.verts)

\* the first word of a stripped line
FirstWord(l) == Word(Strip(l))

IsDirective(l) ==
    FirstWord(l) \in {<<"v">>, <<"v", "n">>, <<"v", "t">>, <<"f">>, <<"g">>,
                      <<"u", "s", "e", "m", "t", "l">>}

\* C10: reading a non-blank line that is not a v, vn, vt, f, g or usemtl
\* directive raises no error and leaves the stream unchanged.
C10_OtherLinesIgnored ==
    [][(pc = "parsing" /\ nread' = nread + 1
            /\ Strip(line') # <<>> /\ ~IsDirective(line'))
        => (err' = "none" /\ pc' = "parsing" /\ objStream' = objStream)]_vars

(***************************************************************************)
(* Properties of a run                                                      *)
(***************************************************************************)
SeqSet(q) == {q[i] : i \in 1..Len(q)}

\* every instance (primary or copy) of every element of the list
AllInstances == UNION {SeqSet(ElementInstances(elementFiles[e])) : e \in 1..NumElements}

\* the sub-instance definition files referenced by an instance as a
\* non-excluded archive
SourcesOf(inst) ==
    {sub.jsonFile : sub \in {s \in SeqSet(inst.subInstances) : IsInstanced(s.name, s)}}

ReferencedSources == UNION {SourcesOf(inst) : inst \in AllInstances}

\* the referenced sources whose artifact file name a given source shares
SharingStage(p) ==
    {q \in ReferencedSources :
        GetAssetSubInstanceStageFilePath(q) = GetAssetSubInstanceStageFilePath(p)}

RunEnded == rpc \in {"done", "aborted"}

\* C5 as stated: when a run has completed, every non-excluded sub-instance
\* source referenced by at least one instance was parsed and converted exactly
\* once in that run (stated for the sources that share their artifact file
\* name with no other referenced source).
C5_ExactlyOncePerRun ==
    rpc = "done" =>
        \A p \in ReferencedSources :
            SharingStage(p) = {p} => parsed.json[p] = 1

\* C5 amended: in one run a sub-instance source is parsed and converted at
\* most once; when the run completes, every artifact file name derived from a
\* referenced non-excluded source holds an artifact, and of the sources with
\* that file name exactly one was parsed in the run if no artifact was there
\* when the run started, and none if one was (left by an earlier run).
C5_AtMostOncePerRun ==
    /\ \A p \in JsonPaths : parsed.json[p] <= 1
    /\ rpc = "done" =>
        \A p \in ReferencedSources :
            LET f == GetAssetSubInstanceStageFilePath(p) IN
            /\ f \in DOMAIN files
            /\ Cardinality({q \in SharingStage(p) : parsed.json[q] = 1})
                 = IF f \in DOMAIN atStart THEN 0 ELSE 1

\* a completed first run in which two elements and a copy reference the same
\* source, parsed once
C5_Witness ==
    /\ rpc = "done"
    /\ run = 1
    /\ Cardinality({inst \in AllInstances : JSON_ax \in SourcesOf(inst)}) >= 3
    /\ parsed.json[JSON_ax] = 1

\* C6: in a second run over unchanged input, after a first run that completed,
\* every unit of work whose output artifact exists is skipped: no geometry
\* file, element definition or sub-instance definition with an artifact in
\* place is parsed, and every artifact is left as the run found it.
C6_SecondRunSkipsAll ==
    (run >= 2 /\ prevDone) =>
        /\ \A p \in AssetPaths :
            GetAssetsStagePath(p) \in DOMAIN atStart => parsed.obj[p] = 0
        /\ \A e \in 1..NumElements :
            GetElementStageFilePath(elementFiles[e].name) \in DOMAIN atStart
                => parsed.element[e] = 0
        /\ \A p \in JsonPaths :
            GetAssetSubInstanceStageFilePath(p) \in DOMAIN atStart => parsed.json[p] = 0
        /\ files = atStart

\* C8: a run continues past a failed unit of work: when the run has ended,
\* every asset without an artifact at the start of the run has been
\* translated and every element has been handled.
C8_FailSoft ==
    RunEnded =>
        /\ \A p \in AssetPaths :
            GetAssetsStagePath(p) \in DOMAIN atStart \/ parsed.obj[p] >= 1
        /\ \A e \in 1..NumElements : parsed.element[e] >= 1

\* C9: once a run has ended, also by the failure of a unit of work, every file
\* in the primitives directory holds the complete result of its unit of work.
C9_AllOrNothing ==
    RunEnded => \A f \in DOMAIN files : files[f].complete

(***************************************************************************)
(* Material bindings                                                        *)
(***************************************************************************)
\* a `usemtl` line that names a material, and the name it gives
IsUsemtlLine(l) ==
    /\ FirstWord(l) = <<"u", "s", "e", "m", "t", "l">>
    /\ Strip(Remove(Strip(l), UsemtlPrefix)) # <<>>

UsemtlName(l) == Strip(Remove(Strip(l), UsemtlPrefix))

\* C11: a `usemtl` line read while a group is active binds its name to that
\* group: when the line follows a `g` line, the material of the group the `g`
\* line names is the name the `usemtl` line gives.
C11_UsemtlBindsActiveGroup ==
    [][(pc = "parsing" /\ nread > 0 /\ IsGroupLine(line)
            /\ nread' = nread + 1 /\ IsUsemtlLine(line') /\ err' = "none")
        => GetMaterialForGroup(objStream', GroupLineName(line)) = UsemtlName(line')]_vars

\* the attribute bag materials.json holds for the material of a mesh
HasMaterialData(mesh) == mesh.material \in DOMAIN materialInfo.data

MaterialDataOf(mesh) == materialInfo.data[mesh.material]

\* C12: a mesh has a display color if and only if the material of its group
\* has a base color that is neither [1, 0, 0] nor [1, 0, 1]; the display color
\* is then the first three channels of that base color.
C12_DisplayColor ==
    pc = "exported" =>
        \A mesh \in Meshes :
            LET hasColor ==
                    /\ HasMaterialData(mesh)
                    /\ MaterialDataOf(mesh).hasBaseColor
                    /\ MaterialDataOf(mesh).baseColor # <<1, 0, 0>>
                    /\ MaterialDataOf(mesh).baseColor # <<1, 0, 1>>
            IN  /\ (mesh.displayColor # <<>>) <=> hasColor
                /\ hasColor =>
                    mesh.displayColor = <<<<MaterialDataOf(mesh).baseColor[1],
                                           MaterialDataOf(mesh).baseColor[2],
                                           MaterialDataOf(mesh).baseColor[3]>>>>

\* a mesh bound to material m by a `usemtl` line, whose base color has four
\* channels: the first three are its display color
C12_Witness ==
    /\ pc = "exported"
    /\ \E mesh \in Meshes :
        /\ mesh.material = MaterialM
        /\ HasMaterialData(mesh)
        /\ MaterialDataOf(mesh).baseColor = <<2, 3, 4, 5>>
        /\ mesh.displayColor = <<<<2, 3, 4>>>>

\* C13: a mesh has a display opacity whenever the material of its group has a
\* base color with a 4th channel (the opacity is that channel, for every value
\* including 0) or an explicit opacity field, and has none otherwise.
C13_DisplayOpacity ==
    pc = "exported" =>
        \A mesh \in Meshes :
            LET fourth ==
                    /\ HasMaterialData(mesh)
                    /\ MaterialDataOf(mesh).hasBaseColor
                    /\ Len(MaterialDataOf(mesh).baseColor) >= 4
                field == HasMaterialData(mesh) /\ MaterialDataOf(mesh).hasOpacity
            IN  /\ (mesh.displayOpacity # <<>>) <=> (fourth \/ field)
                /\ fourth => mesh.displayOpacity = <<MaterialDataOf(mesh).baseColor[4]>>

(***************************************************************************)
(* Properties of the assets and elements of a run                           *)
(***************************************************************************)
\* C14: when the stream parsed from the geometry file of the next asset has
\* zero vertices, translating it writes nothing to the primitives directory
\* and raises nothing: the run goes on with the next asset of the list.
C14_EmptyAssetSkipped ==
    [][(/\ rpc = "assets"
        /\ todo # <<>>
        /\ GetOBJStreamForFile(objFiles[Head(todo)]).err = "none"
        /\ GetOBJStreamForFile(objFiles[Head(todo)]).s.verts = <<>>)
        => (files' = files /\ rpc' = "assets" /\ todo' = Tail(todo))]_vars

\* the first asset of the list had no vertices: it was parsed, nothing was
\* written and the second asset is next
C14_Witness ==
    /\ run = 1
    /\ rpc = "assets"
    /\ objFiles[OBJ_at] = FileNoVerts
    /\ parsed.obj[OBJ_at] = 1
    /\ DOMAIN files = {GetCameraStageFilePath, GetLightStageFilePath}
    /\ todo = Tail(AssetOBJFiles)

\* C15: the artifacts of distinct assets and of distinct elements have
\* distinct paths: an asset or element artifact written in a run is never
\* replaced by the artifact of another unit of work in the same run.
C15_NoUnitOverwritesAnother ==
    [][\A f \in DOMAIN files :
        (f \notin DOMAIN atStart /\ files[f].kind \in {"asset", "element"}
            /\ run' = run)
        => (f \in DOMAIN files' /\ files'[f].source = files[f].source)]_vars

\* C16: the cache of sub-instance artifacts is keyed by the path of the
\* source definition: when a run has completed, every non-excluded source
\* path referenced in it has its own artifact, built from its own definition
\* file.
C16_CacheKeyedBySourcePath ==
    rpc = "done" =>
        \A p \in ReferencedSources :
            LET f == GetAssetSubInstanceStageFilePath(p) IN
            f \in DOMAIN files /\ files[f].source = p

\* the names of the excluded sub-instances
ExcludedNames == {"xgGroundCover", "xgPalmDebris", "xgFlutes", "xgDebris"}

AllSubInstances == UNION {SeqSet(inst.subInstances) : inst \in AllInstances}

\* the prims of the element stages, saved or being authored
ElementPrims ==
    SeqSet(stage)
    \cup UNION {SeqSet(files[f].prims) : f \in {g \in DOMAIN files : files[g].kind = "element"}}

\* C17: a sub-instance of an excluded category is always skipped, whether or
\* not an artifact exists at its path: its definition file is never parsed,
\* no artifact is written from it and no instance references it.
C17_ExcludedAlwaysSkipped ==
    \A s \in {x \in AllSubInstances : x.name \in ExcludedNames} :
        /\ parsed.json[s.jsonFile] = 0
        /\ \A f \in DOMAIN files :
            files[f].kind = "instances" => files[f].source # s.jsonFile
        /\ \A prim \in ElementPrims : \A r \in SeqSet(prim.subRefs) : r.name # s.name

\* a completed run over an element that names xgGroundCover, with an artifact
\* in place at the path of its definition file
C17_Witness ==
    /\ rpc = "done"
    /\ \E inst \in AllInstances : SubGroundCover \in SeqSet(inst.subInstances)
    /\ GetAssetSubInstanceStageFilePath(SubGroundCover.jsonFile) \in DOMAIN files

\* C18: with omitSmallInstances disabled, the sub-instances named
\* xgGroundCover, xgPalmDebris, xgFlutes and xgDebris are referenced like any
\* other archive sub-instance: after a completed run every archive
\* sub-instance of every instance is referenced by the prim of that instance.
C18_OmitSmallInstancesConfigurable ==
    (rpc = "done" /\ ~omitSmallInstances) =>
        \A e \in 1..NumElements :
            LET insts == ElementInstances(elementFiles[e])
                prims == files[GetElementStageFilePath(elementFiles[e].name)].prims
            IN  \A i \in 1..Len(insts) :
                    \A s \in SeqSet(insts[i].subInstances) :
                        s.type = "archive" =>
                            \E r \in SeqSet(prims[i].subRefs) : r.name = s.name

\* the prim expected for an instance with the given name, transform,
\* geometry file and sub-instances
IsInstancePrim(prim, name, transform, geometryFile, subInstances) ==
    /\ prim.name = name
    /\ prim.transform = transform
    /\ prim.geometry = (IF geometryFile # <<>>
                        THEN SplitExt(Basename(geometryFile)) \o USDFileExtension
                        ELSE <<>>)
    /\ {r.name : r \in SeqSet(prim.subRefs)}
         = {x.name : x \in {y \in SeqSet(subInstances) :
                                y.type = "archive" /\ y.name \notin ExcludedNames}}

\* C19: in a saved element stage the primary instance and every instanced
\* copy are prims of the same stage, made the same way; a copy has its own
\* name and transform, and its geometry reference and sub-instances are its
\* own when it declares them and the element's when it omits them.
C19_CopiesLikePrimary ==
    \A e \in 1..NumElements :
        LET d == elementFiles[e]
            f == GetElementStageFilePath(d.name)
        IN  (f \in DOMAIN files /\ files[f].complete) =>
                /\ Len(files[f].prims) = 1 + Len(d.instancedCopies)
                /\ IsInstancePrim(files[f].prims[1], d.name, d.transformMatrix,
                                  d.geomObjFile, d.instancedPrimitiveJsonFiles)
                /\ \A i \in 1..Len(d.instancedCopies) :
                    LET c == d.instancedCopies[i] IN
                    IsInstancePrim(files[f].prims[i + 1], c.name, c.transformMatrix,
                        IF c.hasGeom THEN c.geomObjFile ELSE d.geomObjFile,
                        IF c.hasSubs THEN c.instancedPrimitiveJsonFiles
                        ELSE d.instancedPrimitiveJsonFiles)

\* a saved stage of the first element whose copy declares its own geometry
\* and sub-instances, different from the element's
C19_Witness ==
    LET f == GetElementStageFilePath(E1Name) IN
    /\ f \in DOMAIN files
    /\ files[f].complete
    /\ Len(files[f].prims) = 2
    /\ elementFiles[1].instancedCopies[1].hasGeom
    /\ files[f].prims[2].transform = "moved"
    /\ files[f].prims[2].geometry # files[f].prims[1].geometry
    /\ files[f].prims[2].subRefs # files[f].prims[1].subRefs

\* C20: the extent of every mesh is the component-wise minimum and maximum
\* over its compacted vertex buffer: every vertex of the buffer lies between
\* min and max in each component, and each bound is reached.
C20_ExtentContainsBuffer ==
    pc = "exported" =>
        \A mesh \in Meshes : \A c \in 1..3 :
            /\ \A i \in 1..Len(mesh.points) :
                /\ LessEq(mesh.extent[1][c], mesh.points[i][c])
                /\ LessEq(mesh.points[i][c], mesh.extent[2][c])
            /\ \E i \in 1..Len(mesh.points) : mesh.points[i][c] = mesh.extent[1][c]
            /\ \E i \in 1..Len(mesh.points) : mesh.points[i][c] = mesh.extent[2][c]

(***************************************************************************)
(* Properties of the tables and faces of a stream                           *)
(***************************************************************************)
\* the words of a line after its first word
LineArgs(l) == Tail(Split(Strip(l)))

\* the tables of stream t are those of stream s after one line whose first
\* word is w and whose other words are args
TablesAfterLine(s, t, w, args) ==
    /\ t.verts = IF w = <<"v">> THEN Append(s.verts, [i \in 1..3 |-> FloatVal(args[i])])
                 ELSE s.verts
    /\ t.normals = IF w = <<"v", "n">>
                   THEN Append(s.normals, [i \in 1..3 |-> FloatVal(args[i])])
                   ELSE s.normals
    /\ t.uvs = IF w = <<"v", "t">> THEN Append(s.uvs, [i \in 1..2 |-> FloatVal(args[i])])
               ELSE s.uvs
    /\ IF w = <<"f">>
       THEN /\ Len(t.points) = Len(s.points) + Len(args)
            /\ SubSeq(t.points, 1, Len(s.points)) = s.points
            /\ \A i \in 1..Len(args) :
                t.points[Len(s.points) + i].vertIndex = IntVal(UpTo(args[i], "/")) - 1
       ELSE t.points = s.points

\* C21: a `v`, `vn` or `vt` line read without error appends one entry, its
\* coordinates, to the vertex, normal or texcoord table; an `f` line appends
\* one point per reference, in order, to the point table; a line of one class
\* changes no table of another class, and other lines change no table.
C21_OneEntryPerLine ==
    [][(pc = "parsing" /\ nread' = nread + 1 /\ err' = "none") =>
        TablesAfterLine(objStream, objStream', FirstWord(line'), LineArgs(line'))]_vars

\* four lines of four classes were read: each table has the entries of its
\* own line
C21_Witness ==
    /\ pc = "parsing"
    /\ nread = 4
    /\ Len(objStream.verts) = 1
    /\ Len(objStream.normals) = 1
    /\ Len(objStream.uvs) = 1
    /\ Len(objStream.points) = 3

\* every face of the stream, with the group that holds it
AllFaces ==
    UNION {{<<g, i>> : i \in 1..Len(objStream.groups[g].faces)} :
            g \in 1..Len(objStream.groups)}

FaceAt(gi) == objStream.groups[gi[1]].faces[gi[2]]

\* C26: the faces tile the point table: every face is a range of the table,
\* every point belongs to exactly one face, the faces of a group follow one
\* another in the order read, and the face sizes sum to the number of points.
C26_FacesTilePoints ==
    pc \in {"parsing", "parsed"} =>
        /\ \A gi \in AllFaces :
            /\ 0 <= FaceAt(gi).pointsBegin
            /\ FaceAt(gi).pointsBegin <= FaceAt(gi).pointsEnd
            /\ FaceAt(gi).pointsEnd <= Len(objStream.points)
        /\ \A p \in 0..(Len(objStream.points) - 1) :
            Cardinality({gi \in AllFaces :
                FaceAt(gi).pointsBegin <= p /\ p < FaceAt(gi).pointsEnd}) = 1
        /\ \A gi \in AllFaces :
            gi[2] > 1 =>
                FaceAt(<<gi[1], gi[2] - 1>>).pointsEnd <= FaceAt(gi).pointsBegin
        /\ (AllFaces # {}) =>
            /\ \E gi \in AllFaces : FaceAt(gi).pointsBegin = 0
            /\ \E gi \in AllFaces : FaceAt(gi).pointsEnd = Len(objStream.points)

\* three faces in two groups
C26_Witness ==
    /\ pc = "parsed"
    /\ Cardinality(AllFaces) = 3
    /\ Len(objStream.groups) = 2
    /\ Len(objStream.points) >= 8

\* C27: every face of a stream has at least three points.
C27_FacesHaveThreePoints ==
    \A gi \in AllFaces : FaceAt(gi).pointsEnd - FaceAt(gi).pointsBegin >= 3

\* C30: a `usemtl` line read while no group exists raises no error and binds
\* the material to the default group.
C30_UsemtlBeforeAnyGroup ==
    [][(pc = "parsing" /\ nread' = nread + 1 /\ objStream.groups = <<>>
            /\ IsUsemtlLine(line'))
        => (/\ err' = "none"
            /\ pc' = "parsing"
            /\ GetMaterialForGroup(objStream', DefaultName) = UsemtlName(line'))]_vars

(***************************************************************************)
(* Order of the compacted buffer                                            *)
(***************************************************************************)
\* the vertex indices of the points [pointIndex, pointsEnd) of the point table
RECURSIVE RangeVertIndices(_, _)
RangeVertIndices(pointIndex, pointsEnd) ==
    IF pointIndex >= pointsEnd THEN <<>>
    ELSE <<objStream.points[pointIndex + 1].vertIndex>>
            \o RangeVertIndices(pointIndex + 1, pointsEnd)

\* the vertex indices met walking the faces in order, each face's points in order
RECURSIVE WalkVertIndices(_)
WalkVertIndices(faces) ==
    IF faces = <<>> THEN <<>>
    ELSE RangeVertIndices(Head(faces).pointsBegin, Head(faces).pointsEnd)
            \o WalkVertIndices(Tail(faces))

\* the position in the walk at which the index met at position i was first met
FirstMet(walk, i) == CHOOSE j \in 1..i : walk[j] = walk[i] /\ \A k \in 1..(j - 1) : walk[k] # walk[i]

\* the number of distinct indices met before the index of position i was first met
DistinctBefore(walk, i) == Cardinality({walk[j] : j \in 1..(FirstMet(walk, i) - 1)})

\* C23: walking a group's faces in order and each face's points in order, the
\* k-th distinct vertex index met gets compacted index k-1 and its vertex is
\* the k-th entry of the buffer; an index met again reuses its compacted index.
C23_FirstEncounterOrder ==
    pc = "exported" =>
        \A mesh \in Meshes :
            LET walk == WalkVertIndices(GroupNamed(mesh.name).faces) IN
            /\ Len(mesh.faceVertexIndices) = Len(walk)
            /\ Len(mesh.points) = Cardinality({walk[i] : i \in 1..Len(walk)})
            /\ \A i \in 1..Len(walk) :
                /\ mesh.faceVertexIndices[i] = DistinctBefore(walk, i)
                /\ mesh.points[DistinctBefore(walk, i) + 1] =
                    objStream.verts[PyIndex(walk[i], Len(objStream.verts)) + 1]

\* a mesh of two faces whose first face meets vertex 2 first: vertex 2 gets
\* compacted index 0, vertex 1 gets 1, and both are met again
C23_Witness ==
    /\ pc = "exported"
    /\ \E mesh \in Meshes :
        /\ WalkVertIndices(GroupNamed(mesh.name).faces) = <<1, 1, 1, 0, 1, 0>>
        /\ mesh.faceVertexIndices = <<0, 0, 0, 1, 0, 1>>
        /\ mesh.points = <<objStream.verts[2], objStream.verts[1]>>
        /\ objStream.verts[1] # objStream.verts[2]

(***************************************************************************)
(* Groups without faces                                                      *)
(***************************************************************************)
StreamGroups == {objStream.groups[i] : i \in 1..Len(objStream.groups)}

\* the positions of the layer that hold the mesh of a group
MeshesOf(group) == {i \in 1..Len(layer) : layer[i].name = group.name}

\* the positions of the shading list that hold the material bound to the
\* mesh of a group
BindingsOf(group) ==
    {i \in 1..Len(shading) : shading[i].boundMesh = GetMeshPath(RootPath(AssetOBJFiles[1]), group.name)}

\* C28: in an exported stage a group with no face has no mesh, no material, no
\* shader and no binding; every group with a face has exactly one mesh (and
\* exactly one material, with its shader, bound to that mesh); nothing else
\* is in the stage.
C28_EmptyGroupProducesNothing ==
    pc = "exported" =>
        /\ \A group \in StreamGroups :
            IF group.faces = <<>>
            THEN MeshesOf(group) = {} /\ BindingsOf(group) = {}
            ELSE Cardinality(MeshesOf(group)) = 1 /\ Cardinality(BindingsOf(group)) = 1
        /\ Len(layer) = Cardinality({group \in StreamGroups : group.faces # <<>>})
        /\ Len(shading) = Len(layer)

\* a stage exported from a stream with a group without faces declared before
\* a group with faces
C28_Witness ==
    /\ pc = "exported"
    /\ Len(objStream.groups) = 2
    /\ objStream.groups[1].faces = <<>>
    /\ objStream.groups[2].faces # <<>>
    /\ Len(layer) = 1
    /\ Len(shading) = 1

(***************************************************************************)
(* References from element stages to asset stages                           *)
(***************************************************************************)
\* the element stages saved in the primitives directory
SavedElementStages ==
    {path \in DOMAIN files : files[path].kind = "element" /\ files[path].complete}

\* the asset stage paths referenced by the instances of a saved element stage
GeometryReferences(path) ==
    {files[path].prims[i].geometry : i \in 1..Len(files[path].prims)} \ {<<>>}

\* C24: every asset stage path referenced by a saved element stage is the
\* path of an asset stage that exists in the primitives directory.
C24_ReferencedAssetsExist ==
    \A path \in SavedElementStages : \A ref \in GeometryReferences(path) :
        ref \in DOMAIN files /\ files[ref].kind = "asset"

(***************************************************************************)
(* References from instances to sub-instance stages                         *)
(***************************************************************************)
\* a sub-instance of type archive whose category is not excluded
IsReferencedArchive(sub) == sub.type = "archive" /\ sub.name \notin ExcludedNames

\* the number of times the definition files among subs that map to the stage
\* path were parsed, according to the call counts
ParsesFor(calls, subs, path) ==
    LET sources == {sub.jsonFile : sub \in
                        {x \in SeqSet(subs) : GetAssetSubInstanceStageFilePath(x.jsonFile) = path}}
        RECURSIVE Sum(_)
        Sum(S) == IF S = {} THEN 0
                  ELSE LET j == CHOOSE x \in S : TRUE IN calls.json[j] + Sum(S \ {j})
    IN  Sum(sources)

\* C25: when an instance (primary or copy) has been created, it holds one
\* reference per non-excluded archive sub-instance it declares, to the stage
\* path of that sub-instance, and that stage exists; a stage that existed
\* before (hit) is left as it was and its definition file is not parsed, a
\* stage that did not exist (miss) was written from one parse of a definition.
C25_ReferenceOnHitAndMiss ==
    [][(rpc = "in_element" /\ pending # <<>> /\ rpc' = "in_element"
            /\ pending' = Tail(pending) /\ Len(stage') = Len(stage) + 1)
        => LET subs == SelectSeq(Head(pending).subInstances, IsReferencedArchive)
               prim == stage'[Len(stage')]
           IN  /\ prim.subRefs =
                    [i \in 1..Len(subs) |->
                        [name |-> subs[i].name,
                         ref |-> GetAssetSubInstanceStageFilePath(subs[i].jsonFile)]]
               /\ \A i \in 1..Len(subs) :
                    LET path == GetAssetSubInstanceStageFilePath(subs[i].jsonFile) IN
                    /\ path \in DOMAIN files'
                    /\ files'[path].complete
                    /\ IF path \in DOMAIN files
                       THEN /\ files'[path] = files[path]
                            /\ ParsesFor(parsed', subs, path) = ParsesFor(parsed, subs, path)
                       ELSE /\ files'[path].kind = "instances"
                            /\ ParsesFor(parsed', subs, path) =
                                    ParsesFor(parsed, subs, path) + 1]_vars

\* in a first run, two instances of an element reference the same
\* sub-instance stage: the first was created on a miss, the second on a hit
C25_Witness ==
    /\ run = 1
    /\ rpc = "in_element"
    /\ Len(stage) >= 2
    /\ stage[1].subRefs # <<>>
    /\ stage[2].subRefs = stage[1].subRefs
    /\ \A r \in SeqSet(stage[1].subRefs) :
        /\ r.ref \in DOMAIN files
        /\ parsed.json[files[r.ref].source] = 1

(***************************************************************************)
(* Instance batches                                                          *)
(***************************************************************************)
\* the positions of the layer being written and of the exported file, each
\* with the entry of jsonData it was written from
BatchPrims ==
    {<<batchLayer[p], jsonData[p]>> : p \in 1..Len(batchLayer)}
    \cup {<<batchFile[p], jsonData[p]>> : p \in 1..Len(batchFile)}

\* C29: in every batch written, positions, orientations and protoIndices have
\* the length of the prototype's instance list; entry i of positions and entry
\* i of orientations come from the i-th instance in iteration order; every
\* protoIndices entry is 0.
C29_ParallelArrays ==
    \A pe \in BatchPrims :
        LET prim == pe[1]
            instances == pe[2].instances
        IN  /\ Len(prim.positions) = Len(instances)
            /\ Len(prim.orientations) = Len(instances)
            /\ Len(prim.protoIndices) = Len(instances)
            /\ \A i \in 1..Len(instances) :
                /\ prim.positions[i] = ExtractTranslation(instances[i])
                /\ prim.orientations[i] =
                        Quath(GetNormalized(ExtractRotation(instances[i])))
                /\ prim.protoIndices[i] = 0

\* an exported batch of two instances placed and turned differently
C29_Witness ==
    /\ bpc = "exported"
    /\ \E p \in 1..Len(batchFile) :
        /\ Len(batchFile[p].positions) = 2
        /\ batchFile[p].positions[1] # batchFile[p].positions[2]
        /\ batchFile[p].orientations[1] # batchFile[p].orientations[2]
        /\ batchFile[p].protoIndices = <<0, 0>>

\* 1 in the units of the stored components, and 1 in the units of their squares
HalfOne == Pow2(HalfUnitPlaces)

HalfOneSquared == HalfOne * HalfOne

\* real^2 + |imaginary|^2 of a stored quaternion, in units of 2^-28
StoredNormSquared(o) == o[1] * o[1] + o[2] * o[2] + o[3] * o[3] + o[4] * o[4]

\* the stored orientations of all batches, each with its instance transform
StoredOrientations ==
    UNION {{<<pe[1].positions[i], pe[1].orientations[i], pe[2].instances[i]>> :
                i \in 1..Len(pe[1].orientations)} : pe \in BatchPrims}

IdentityStored(poi) ==
    poi[3] = TransformIdentity =>
        /\ poi[1].n = <<0, 0, 0>>
        /\ poi[2] = <<HalfOne, 0, 0, 0>>

\* C22 as stated: every stored orientation has real^2 + |imaginary|^2 within
\* 1e-5 of 1, and the identity transform is stored as position (0,0,0) and
\* quaternion (1,0,0,0).
C22_StoredQuaternionUnit ==
    \A poi \in StoredOrientations :
        /\ Abs(StoredNormSquared(poi[2]) - HalfOneSquared) <= HalfOneSquared \div 100000
        /\ IdentityStored(poi)

\* C22 amended: the stored orientation of every instance transform, rigid or
\* not, is the normalized quaternion of its rotation with each component
\* rounded to the nearest half-precision number, and has
\* real^2 + |imaginary|^2 within 1e-3 of 1; the identity transform is stored
\* as position (0,0,0) and quaternion (1,0,0,0).
C22_StoredAsHalf ==
    \A poi \in StoredOrientations :
        /\ poi[2] = Quath(GetNormalized(ExtractRotation(poi[3])))
        /\ Abs(StoredNormSquared(poi[2]) - HalfOneSquared) <= HalfOneSquared \div 1000
        /\ IdentityStored(poi)

\* an exported batch that holds the identity, a turned instance whose stored
\* quaternion is (0.7998, 0.6001, 0, 0), off unit norm by more than 1e-5, and
\* an instance that is not rigid, whose quaternion before the normalization
\* is not of unit norm
C22_Witness ==
    /\ bpc = "exported"
    /\ \E poi \in StoredOrientations : poi[3] = TransformIdentity
    /\ \E poi \in StoredOrientations :
        /\ poi[3] = TransformTurnX
        /\ poi[2] = <<13104, 9832, 0, 0>>
        /\ Abs(StoredNormSquared(poi[2]) - HalfOneSquared) > HalfOneSquared \div 100000
    /\ \E poi \in StoredOrientations :
        /\ poi[3] \in {TransformHalfSize, TransformSkewed}
        /\ NormSquared(ExtractRotationQuat(poi[3])) # Fraction(1, 1)
        /\ poi[2] # <<HalfOne, 0, 0, 0>>

====
